---- MODULE Spec2Model ----
(***************************************************************************)
(* membalanced: the Xen memory balancing daemon.                           *)
(*                                                                         *)
(* The module models the daemon's domain registry (pending / managed /     *)
(* unmanaged maps and the qid map), the pending-domain pass, the           *)
(* resolution of domain settings, the handling of xenstore watch events,   *)
(* configuration reload, and the memory scheduling tick, together with a   *)
(* small Xen host (domains, their allocations and xenstore keys).          *)
(*                                                                         *)
(* Sizes are in KB.  Time is in seconds; an instant the daemon remembers   *)
(* (ts_noticed, ts0_pending, ts0_sched) is kept as the time elapsed since  *)
(* that instant, which is all the code ever computes from it               *)
(* (timespec_diff_ms(getnow(), ts)).  Fractions dmem_incr / dmem_decr are  *)
(* kept in sixteenths so that (long)(m * (1 +- f)) is computed exactly.    *)
(***************************************************************************)
EXTENDS Integers, Sequences, FiniteSets, TLC

(***************************************************************************)
(* Program constants                                                       *)
(***************************************************************************)
pagesize_kbs == 4
memquant_kbs == pagesize_kbs
CTRL_MODE_AUTO == 1
CTRL_MODE_DIRECT == 2
XS_MEM_VIDEORAM_UNSET == -11
sched_tick0 == 1000
resist_force_free_soft == 45
FracDenom == 16

(***************************************************************************)
(* Bounds of the exploration                                               *)
(***************************************************************************)
MaxTick == 3
MaxSeq == 2
MaxSlept == 2
MaxPause == 2
MaxFreemem == 1
MaxSoloTick == 6

IDS == 0 .. 2
DOMU == IDS \ {0}
QIDS == 1 .. 3

lowest(S) == CHOOSE x \in S : \A y \in S : x <= y
max(a, b) == IF a >= b THEN a ELSE b
min(a, b) == IF a <= b THEN a ELSE b
\* a variant that does not round
roundup_none(n, r) == n

roundup(n, r) == ((n + r - 1) \div r) * r
rounddown(n, r) == (n \div r) * r
contains(m, id) == id \in DOMAIN m

\* Let1(v, F) is F(v); v is computed once, however often F uses it
Let1(v, F(_)) == CHOOSE r \in { F(x) : x \in { v } } : TRUE
erase(m, id) == [x \in (DOMAIN m) \ {id} |-> m[x]]
elapse(s, cap) == min(s + 1, cap)

(***************************************************************************)
(* The environment: membalanced.conf files the administrator may install,  *)
(* xl domain configuration files, and the Xen host.                        *)
(***************************************************************************)
default_config ==
  [ seq |-> 1, interval |-> 2, domain_pending_timeout |-> 2,
    host_reserved_hard |-> 256, host_reserved_soft |-> 512,
    rate_high |-> 200, rate_low |-> 0, rate_zero |-> 30,
    dmem_incr |-> 2, dmem_decr |-> 1, guest_free_threshold |-> 15,
    startup_time |-> 300, trim_unresponsive |-> 4, trim_unmanaged |-> TRUE,
    dom0_mode |-> 0, xen_private_data_size_samples |-> 3 ]

ConfFiles ==
  { default_config,
    [default_config EXCEPT !.rate_low = 300],
    [default_config EXCEPT !.dom0_mode = CTRL_MODE_AUTO,
                           !.domain_pending_timeout = 3] }

\* elapsed time of a pending domain is kept up to one second past the
\* longest domain_pending_timeout
MaxAge == 1 + lowest({ t \in 0 .. 100 :
                        \A c \in ConfFiles : c.domain_pending_timeout <= t })

NoKey == -1

DomainConfig(mode, memory, dmin, dquota, dmax) ==
  [ membalance_mode |-> mode, memory |-> memory, maxmem |-> NoKey,
    membalance_dmem_min |-> dmin, membalance_dmem_quota |-> dquota,
    membalance_dmem_max |-> dmax,
    membalance_dmem_incr |-> NoKey, membalance_dmem_decr |-> NoKey,
    membalance_rate_high |-> NoKey, membalance_rate_low |-> NoKey,
    membalance_rate_zero |-> NoKey,
    membalance_guest_free_threshold |-> NoKey,
    membalance_trim_unmanaged |-> "TriMaybe" ]

cf_none == DomainConfig("", 640, NoKey, NoKey, NoKey)
cf_off == DomainConfig("off", 640, NoKey, NoKey, NoKey)
cf_auto == DomainConfig("auto", 640, 512, NoKey, NoKey)
cf_direct == DomainConfig("direct", 640, NoKey, NoKey, NoKey)
cf_capped == DomainConfig("auto", 640, 512, 576, 576)
cf_big == DomainConfig("auto,direct", 640, 512, NoKey, 1024)
cf_small == DomainConfig("auto", 576, 512, 640, 768)
cf_picky ==
  [ DomainConfig("auto", 640, 512, 576, 768) EXCEPT
      !.membalance_guest_free_threshold = 5 ]

StaticMax == { 768, 1024 }

HostPhysMem == [ total |-> 4096, dom0 |-> 1024, slack |-> 128, xen_data |-> 8 ]

NoDomain ==
  [ alive |-> FALSE, built |-> FALSE, paused |-> FALSE, static_max |-> 0,
    target |-> 0, videoram |-> 0, tot |-> 0, cf |-> cf_none, link |-> 0,
    probe |-> "none", uptime |-> 0 ]

Dom0 ==
  [ NoDomain EXCEPT !.alive = TRUE, !.built = TRUE,
      !.static_max = HostPhysMem.dom0, !.target = HostPhysMem.dom0,
      !.tot = HostPhysMem.dom0 ]

NewDomain(cf, smax, built, probe) ==
  [ alive |-> TRUE, built |-> built, paused |-> FALSE, static_max |-> smax,
    target |-> cf.memory, videoram |-> 0,
    tot |-> cf.memory + HostPhysMem.xen_data, cf |-> cf, link |-> 0,
    probe |-> probe, uptime |-> 0 ]

RECURSIVE SumTot(_, _)
SumTot(h, S) ==
  IF S = {} THEN 0
  ELSE LET x == CHOOSE y \in S : TRUE
       IN  (IF h[x].alive THEN h[x].tot ELSE 0) + SumTot(h, S \ {x})

get_xen_free_memory(h) == max(0, HostPhysMem.total - SumTot(h, IDS))
get_xen_free_slack == HostPhysMem.slack
domain_alive(h, id) == h[id].alive
is_runnable(h, id) == h[id].alive /\ ~h[id].paused

VARIABLES
  doms_pending, doms_managed, doms_unmanaged, doms_qid,
  config, started, resuming_memsched,
  since_pending, since_sched,
  sched_tick, host_free, xen_free0, host_lien0, memsched_pause_level,
  xen, xs_qids, watchq, trail, orders, reply, freemem_calls, enact

vars ==
  << doms_pending, doms_managed, doms_unmanaged, doms_qid,
     config, started, resuming_memsched,
     since_pending, since_sched,
     sched_tick, host_free, xen_free0, host_lien0, memsched_pause_level,
     xen, xs_qids, watchq, trail, orders, reply, freemem_calls, enact >>

(***************************************************************************)
(* domain_info                                                             *)
(***************************************************************************)
new_domain_info ==
  [ qid |-> 0,
    since_noticed |-> 0, pending_cycle |-> 0, pending_skipped |-> 0,
    resolved_config_seq |-> 0, xen_data_size_phase |-> 0,
    vm_name |-> FALSE, vm_uuid |-> FALSE, xs_start_time |-> FALSE,
    xs_mem_max |-> -1, xs_mem_target |-> -1,
    xs_mem_videoram |-> XS_MEM_VIDEORAM_UNSET,
    config_file_status |-> "TriMaybe", ctrl_modes_allowed |-> 0,
    ctrl_mode |-> 0,
    xc_memory |-> -1, xc_maxmem |-> -1, xc_dmem_max |-> -1,
    xc_dmem_quota |-> -1, xc_dmem_min |-> -1, xc_dmem_incr |-> -1,
    xc_dmem_decr |-> -1, xc_rate_high |-> -1, xc_rate_low |-> -1,
    xc_rate_zero |-> -1, xc_guest_free_threshold |-> -1,
    xc_trim_unmanaged |-> "TriMaybe",
    dmem_max |-> -1, dmem_quota |-> -1, dmem_min |-> -1,
    dmem_incr |-> -FracDenom, dmem_decr |-> -FracDenom,
    rate_high |-> -1, rate_low |-> -1,
    rate_zero |-> -1, guest_free_threshold |-> -1, startup_time |-> -1,
    trim_unresponsive |-> -1, trim_unmanaged |-> TRUE, xen_data_size |-> 0,
    last_report_tick |-> 0, no_report_time |-> 0, rate_history |-> << >>,
    time_rate_below_low |-> 0, time_rate_below_high |-> 0,
    last_expand_tick |-> 0, listed |-> {}, preshrink |-> 0,
    preshrink_tick |-> 0,
    valid_data |-> FALSE, valid_memory_data |-> FALSE,
    trimming_to_quota |-> FALSE, runnable |-> FALSE,
    rate |-> 0, freepct |-> 0, fast_rate |-> 0, slow_rate |-> 0,
    memgoal0 |-> 0, memsize0 |-> 0, memsize |-> 0,
    memsize_incr |-> 0, memsize_decr |-> 0, memsize_hard |-> 0,
    memsize_soft |-> 0, xds_seen |-> << >>, exam_cycle |-> 0,
    resist_force |-> << 0, 1 >>, bid |-> << >>, grant |-> << >>,
    xds_phase |-> 0, xds_totsize0 |-> -1, xds_memgoal0 |-> -1 ]

on_enter_pending(dom) ==
  [ dom EXCEPT !.since_noticed = 0, !.pending_cycle = 0,
               !.pending_skipped = 0, !.resolved_config_seq = 0,
               !.xen_data_size_phase = 0, !.xds_seen = << >>,
               !.exam_cycle = 0 ]

\* ts_noticed, pending_cycle, pending_skipped and xen_data_size_phase are
\* read only while the domain is pending; they are cleared here so that
\* managed records that differ in nothing else coincide
on_enter_managed(dom) ==
  [ dom EXCEPT !.since_noticed = 0, !.pending_cycle = 0,
               !.pending_skipped = 0, !.xen_data_size_phase = 0,
               !.exam_cycle = 0,
               !.last_report_tick = 0, !.no_report_time = 0,
               !.time_rate_below_low = 0, !.time_rate_below_high = 0,
               !.valid_data = FALSE, !.valid_memory_data = FALSE,
               !.last_expand_tick = 0, !.preshrink = 0,
               !.preshrink_tick = 0, !.xds_phase = 0,
               !.xds_totsize0 = -1, !.xds_memgoal0 = -1 ]

(***************************************************************************)
(* Resizing requests to the host                                           *)
(***************************************************************************)
\* set_memory_target: libxl records the new target in xenstore; the guest
\* balloons towards it later.  Returns the new host and the domain record
\* with the target read back; rc = -1 when the domain no longer exists.
set_memory_target(h, dom, id, reqsize) ==
  LET size == IF reqsize % memquant_kbs # 0
              THEN roundup(reqsize, memquant_kbs) ELSE reqsize
  IN  IF ~h[id].alive
      THEN [ rc |-> -1, xen |-> h, dom |-> dom ]
      ELSE [ rc |-> 0,
             xen |-> [h EXCEPT ![id].target = size - h[id].videoram],
             dom |-> [dom EXCEPT !.xs_mem_target = size - h[id].videoram] ]

\* a variant that does not look at the target the domain already has
trim_to_quota_again(h, dom, id) ==
  LET r == set_memory_target(h, dom, id, dom.dmem_quota)
  IN  IF dom.dmem_quota < 0
      THEN [ res |-> FALSE, xen |-> h, dom |-> dom ]
      ELSE [ res |-> r.rc >= 0, xen |-> r.xen, dom |-> r.dom ]

trim_to_quota(h, dom, id) ==
  LET goal == roundup(dom.xs_mem_target + dom.xs_mem_videoram, pagesize_kbs)
      r == set_memory_target(h, dom, id, dom.dmem_quota)
  IN  IF dom.dmem_quota < 0 \/ goal <= dom.dmem_quota
      THEN [ res |-> FALSE, xen |-> h, dom |-> dom ]
      ELSE [ res |-> r.rc >= 0, xen |-> r.xen, dom |-> r.dom ]

(***************************************************************************)
(* Domain lifecycle.  The registry is the record w:                        *)
(*   pending, managed : domain id -> domain_info                           *)
(*   unmanaged        : set of domain ids                                  *)
(*   qid              : domain id -> qid                                   *)
(*   xsq              : qids whose keys exist under /tool/membalance       *)
(*   resuming         : resuming_memsched                                  *)
(*   xen              : the host                                           *)
(*   trail            : the moves between maps made so far by the handler  *)
(*                      that is running, as triples << id, from, to >>     *)
(*   orders           : the memory targets set so far by the handler that  *)
(*                      is running, in the order of the calls              *)
(***************************************************************************)
\* a call of set_memory_target that reached a live domain: kind is "trim"
\* (trim_to_quota), "+" (do_expand_domain), "-" (do_shrink_domain) or "0"
\* (do_resize_domain with no intent), size the requested size, curr the
\* domain's allocation less its xen data size when the call is made
Order(id, kind, size, curr) ==
  [ id |-> id, kind |-> kind, size |-> size, curr |-> curr ]

note_order(w, dom, id, kind, size) ==
  IF ~w.xen[id].alive THEN w.orders
  ELSE Append(w.orders,
              Order(id, kind, size, w.xen[id].tot - dom.xen_data_size))

is_domain_known(w, id) ==
  contains(w.managed, id) \/ id \in w.unmanaged \/ contains(w.pending, id)

\* the map that holds the record of a domain
state_of(w, id) ==
  IF contains(w.managed, id) THEN "Managed"
  ELSE IF id \in w.unmanaged THEN "Unmanaged"
  ELSE IF contains(w.pending, id) THEN "Pending"
  ELSE "unknown"

\* w2 is w after one transition routine has run for id; the move it made
\* is added to the trail of the handler
moved(w, w2, id) ==
  Let1(w2, LAMBDA v :
    IF state_of(w, id) = state_of(v, id) THEN v
    ELSE [ v EXCEPT !.trail =
                      @ \cup { << id, state_of(w, id), state_of(v, id) >> } ])

qid_dead(w, id) ==
  IF ~contains(w.qid, id) THEN w
  ELSE [ w EXCEPT !.xsq = @ \ {w.qid[id]}, !.qid = erase(@, id) ]

on_add_managed(w) ==
  IF Cardinality(DOMAIN w.managed) = 1
  THEN [ w EXCEPT !.resuming = TRUE ] ELSE w

transition_new_pending(w, id) ==
  moved(w, [ w EXCEPT !.pending = (id :> on_enter_pending(new_domain_info))
                                    @@ @ ], id)

transition_managed_dead(w, id) ==
  moved(w, qid_dead([ w EXCEPT !.managed = erase(@, id) ], id), id)

transition_unmanaged_dead(w, id) ==
  moved(w, qid_dead([ w EXCEPT !.unmanaged = @ \ {id} ], id), id)

transition_pending_dead(w, id) ==
  moved(w, qid_dead([ w EXCEPT !.pending = erase(@, id) ], id), id)

transition_dead(w, id) ==
  IF contains(w.managed, id) THEN transition_managed_dead(w, id)
  ELSE IF id \in w.unmanaged THEN transition_unmanaged_dead(w, id)
  ELSE IF contains(w.pending, id) THEN transition_pending_dead(w, id)
  ELSE qid_dead(w, id)

transition_pending_managed(w, id) ==
  moved(w, on_add_managed(
    [ w EXCEPT !.managed = (id :> on_enter_managed(w.pending[id])) @@ @,
               !.pending = erase(@, id) ]), id)

transition_pending_unmanaged_keeps(w, id) ==
  moved(w, [ w EXCEPT !.unmanaged = @ \cup {id} ], id)

transition_pending_unmanaged(w, id) ==
  moved(w, [ w EXCEPT !.pending = erase(@, id), !.unmanaged = @ \cup {id} ],
        id)

transition_managed_unmanaged(w, id) ==
  LET dom == w.managed[id]
      t == trim_to_quota(w.xen, dom, id)
      trimmed == dom.trim_unmanaged /\ t.res
  IN  moved(w, [ w EXCEPT !.xen = IF trimmed THEN t.xen ELSE @,
                          !.orders = IF trimmed
                                     THEN note_order(w, dom, id, "trim",
                                                     dom.dmem_quota)
                                     ELSE @,
                          !.managed = erase(@, id),
                          !.unmanaged = @ \cup {id} ], id)

transition_unmanaged_managed(w, id) ==
  moved(w, [ w EXCEPT !.unmanaged = @ \ {id},
                      !.managed = (id :> on_enter_managed(new_domain_info))
                                  @@ @ ], id)

transition_unmanaged_pending(w, id) ==
  moved(w, [ w EXCEPT !.unmanaged = @ \ {id},
                      !.pending = (id :> on_enter_pending(new_domain_info))
                                  @@ @ ], id)

\* a variant that leaves the domain where it is
unmanage_domain_skipped(w, id) == w

unmanage_domain(w, id) ==
  IF contains(w.managed, id) THEN transition_managed_unmanaged(w, id)
  ELSE IF contains(w.pending, id) THEN transition_pending_unmanaged(w, id)
  ELSE w

(***************************************************************************)
(* Domain configuration file and resolution of settings                    *)
(***************************************************************************)
parse_control_mode(s) ==
  CASE s = "off" -> [ ok |-> TRUE, mask |-> 0 ]
    [] s = "auto" -> [ ok |-> TRUE, mask |-> CTRL_MODE_AUTO ]
    [] s = "direct" -> [ ok |-> TRUE, mask |-> CTRL_MODE_DIRECT ]
    [] s = "auto,direct" ->
         [ ok |-> TRUE, mask |-> CTRL_MODE_AUTO + CTRL_MODE_DIRECT ]
    [] OTHER -> [ ok |-> FALSE, mask |-> 0 ]

parse_config_file_settings(dom, cf) ==
  LET has_mode == cf.membalance_mode # ""
      pm == parse_control_mode(cf.membalance_mode)
      kv_size == has_mode
                 \/ cf.membalance_dmem_max # NoKey
                 \/ cf.membalance_dmem_min # NoKey
                 \/ cf.membalance_dmem_quota # NoKey
                 \/ cf.membalance_dmem_incr # NoKey
                 \/ cf.membalance_dmem_decr # NoKey
                 \/ cf.membalance_rate_high # NoKey
                 \/ cf.membalance_rate_low # NoKey
                 \/ cf.membalance_rate_zero # NoKey
                 \/ cf.membalance_guest_free_threshold # NoKey
                 \/ cf.membalance_trim_unmanaged # "TriMaybe"
      d1 == IF has_mode /\ pm.ok
            THEN [dom EXCEPT !.ctrl_modes_allowed = pm.mask] ELSE dom
      d2 == [ d1 EXCEPT !.ctrl_mode =
                IF d1.ctrl_modes_allowed = CTRL_MODE_AUTO
                   \/ d1.ctrl_modes_allowed = CTRL_MODE_DIRECT
                THEN d1.ctrl_modes_allowed ELSE 0 ]
      d3 == [ d2 EXCEPT !.xc_memory = cf.memory,
                !.xc_maxmem = IF cf.maxmem # NoKey THEN cf.maxmem
                              ELSE cf.memory,
                !.xc_dmem_max = cf.membalance_dmem_max,
                !.xc_dmem_min = cf.membalance_dmem_min,
                !.xc_dmem_quota = cf.membalance_dmem_quota,
                !.xc_rate_high = cf.membalance_rate_high,
                !.xc_rate_low = cf.membalance_rate_low,
                !.xc_rate_zero = cf.membalance_rate_zero,
                !.xc_guest_free_threshold =
                   cf.membalance_guest_free_threshold,
                !.xc_dmem_incr = cf.membalance_dmem_incr,
                !.xc_dmem_decr = cf.membalance_dmem_decr,
                !.xc_trim_unmanaged = cf.membalance_trim_unmanaged ]
  IN  IF has_mode /\ ~pm.ok THEN [ ok |-> FALSE, dom |-> dom ]
      ELSE IF has_mode /\ d1.ctrl_modes_allowed = 0
        THEN [ ok |-> FALSE, dom |-> d1 ]
      ELSE IF ~kv_size \/ ~has_mode THEN [ ok |-> FALSE, dom |-> d1 ]
      ELSE IF cf.memory = NoKey \/ cf.memory < 0
        THEN [ ok |-> FALSE, dom |-> d2 ]
      ELSE [ ok |-> TRUE, dom |-> d3 ]

\* cfread is what libxl_userdata_retrieve returns this time:
\* "err" (rc # 0), "empty" (transient empty data) or "ok"
retrieve_config_file_settings(dom, cf, cfread) ==
  LET p == parse_config_file_settings(dom, cf)
  IN  IF dom.config_file_status # "TriMaybe" THEN dom
      ELSE IF cfread # "ok" THEN dom
      ELSE [ p.dom EXCEPT !.config_file_status =
               IF p.ok THEN "TriTrue" ELSE "TriFalse" ]

pick(a, b) == IF a >= 0 THEN a ELSE b

resolve_settings(dom, cfg) ==
  LET automode == (dom.ctrl_modes_allowed % 2) = 1
      v_min == dom.xc_dmem_min >= 0 \/ dom.xc_memory >= 0
      v_max == dom.xc_dmem_max >= 0 \/ dom.xs_mem_max >= 0
               \/ dom.xc_memory >= 0
      v_quota == dom.xc_dmem_quota >= 0 \/ dom.xc_memory >= 0
      d1 == [ dom EXCEPT
                !.dmem_min = IF v_min THEN pick(dom.xc_dmem_min, dom.xc_memory)
                             ELSE @,
                !.dmem_max = IF v_max
                             THEN pick(dom.xc_dmem_max,
                                       pick(dom.xs_mem_max, dom.xc_memory))
                             ELSE @ ]
      d2 == IF ~automode THEN d1
            ELSE [ d1 EXCEPT
                !.dmem_quota = IF v_quota
                               THEN pick(dom.xc_dmem_quota, dom.xc_memory)
                               ELSE @,
                !.dmem_incr = pick(dom.xc_dmem_incr, cfg.dmem_incr),
                !.dmem_decr = pick(dom.xc_dmem_decr, cfg.dmem_decr),
                !.rate_high = pick(dom.xc_rate_high, cfg.rate_high),
                !.rate_low = pick(dom.xc_rate_low, cfg.rate_low),
                !.rate_zero = pick(dom.xc_rate_zero, cfg.rate_zero),
                !.guest_free_threshold =
                   pick(dom.xc_guest_free_threshold,
                        cfg.guest_free_threshold),
                !.startup_time = cfg.startup_time,
                !.trim_unresponsive = cfg.trim_unresponsive,
                !.trim_unmanaged =
                   IF dom.xc_trim_unmanaged # "TriMaybe"
                   THEN dom.xc_trim_unmanaged = "TriTrue"
                   ELSE cfg.trim_unmanaged ]
      valid1 == v_min /\ v_max /\ (automode => v_quota)
      d3 == [ d2 EXCEPT
                !.dmem_max = IF @ >= 0 THEN roundup(@, memquant_kbs) ELSE @,
                !.dmem_min = IF @ >= 0 THEN roundup(@, memquant_kbs) ELSE @,
                !.dmem_quota = IF @ >= 0 THEN roundup(@, memquant_kbs)
                               ELSE @ ]
      valid2 ==
        /\ ~(automode /\ ~(d3.rate_low < d3.rate_high))
        /\ ~(automode /\ ~(d3.dmem_min <= d3.dmem_quota))
        /\ ~(automode /\ ~(d3.dmem_quota <= d3.dmem_max))
        /\ ~(~automode /\ ~(d3.dmem_min <= d3.dmem_max))
        /\ d3.dmem_max <= d3.xs_mem_max
        /\ ~(d3.xs_mem_videoram > 0
             /\ d3.xs_mem_videoram % memquant_kbs # 0)
  IN  IF ~valid1 THEN [ ok |-> FALSE, dom |-> d2 ]
      ELSE IF ~valid2 THEN [ ok |-> FALSE, dom |-> d3 ]
      ELSE IF d3.dmem_min = d3.dmem_max THEN [ ok |-> FALSE, dom |-> d3 ]
      ELSE [ ok |-> TRUE, dom |-> d3 ]

\* every item of a loaded configuration is defined (defaults are merged
\* in), so only the changes of rate_high / rate_low count
resolve_settings_affected(old, cfg) ==
  old.rate_high # cfg.rate_high \/ old.rate_low # cfg.rate_low

(***************************************************************************)
(* Processing of a pending domain                                          *)
(***************************************************************************)
is_xs_data_complete(dom, id) ==
  /\ dom.vm_name /\ dom.vm_uuid
  /\ dom.xs_mem_max >= 0 /\ dom.xs_mem_target >= 0
  /\ dom.xs_mem_videoram # XS_MEM_VIDEORAM_UNSET
  /\ (dom.xs_start_time \/ id = 0)

\* The host creates the xenstore keys of a domain together (built), so a
\* key is readable iff the domain is alive and built.  Dom0 has no vm
\* subkey, its vm_uuid is never read.
process_pending_read_xs(dom, id, h) ==
  LET present == h[id].alive /\ h[id].built
      d1 == [ dom EXCEPT
                !.vm_name = TRUE,
                !.vm_uuid = IF id # 0 THEN TRUE ELSE @,
                !.xs_mem_max = IF @ = -1 THEN h[id].static_max ELSE @,
                !.xs_mem_target = IF @ = -1 THEN h[id].target ELSE @,
                !.xs_mem_videoram = IF @ = XS_MEM_VIDEORAM_UNSET
                                    THEN h[id].videoram ELSE @,
                !.xs_start_time = IF id # 0 THEN TRUE ELSE @ ]
  IN  IF ~present
      THEN [ c |-> IF ~domain_alive(h, id) THEN "d" ELSE "c", dom |-> dom ]
      ELSE [ c |-> IF is_xs_data_complete(d1, id) THEN "p" ELSE "c",
             dom |-> d1 ]

\* The record keeps, as xds_seen, the sizes that the examinations of the
\* domain have computed since it became pending, oldest first.
eval_xen_data_size(dom, id, h) ==
  LET curr_size == h[id].tot
      xds == curr_size
             - roundup(dom.xs_mem_target + dom.xs_mem_videoram, memquant_kbs)
      d1 == [ dom EXCEPT !.xen_data_size = xds,
                         !.xds_seen = Append(@, xds) ]
      d2 == [ dom EXCEPT !.xen_data_size = xds - (xds % memquant_kbs),
                         !.xds_seen = Append(@, xds) ]
  IN  IF ~h[id].alive THEN [ c |-> "d", dom |-> dom ]
      ELSE IF ~is_runnable(h, id) THEN [ c |-> "c", dom |-> dom ]
      ELSE IF get_xen_free_memory(h) < pagesize_kbs * 100
        THEN [ c |-> "1", dom |-> dom ]
      ELSE IF xds < 0 THEN [ c |-> "1", dom |-> d1 ]
      ELSE [ c |-> "p", dom |-> d2 ]

\* a variant that restarts the run at the first sample only
xen_data_size_restarts_at_first(phase, xds, xds_new) == phase = 0

\* "if (xen_data_size_phase == 0 || xds != xen_data_size)"
xen_data_size_restarts(phase, xds, xds_new) == phase = 0 \/ xds # xds_new

\* pending_cycle is compared with 3, 6 and 20 only; it is kept up to 31 so
\* that the first examination of the slowest band is told from the rest
PendingCycleCap == 30 + 1

\* a variant that examines a pending domain on every cycle
pending_scan_period_flat(cyc) == 1

\* the number of cycles from one examination to the next
pending_scan_period(cyc) ==
  IF cyc <= 3 THEN 1 ELSE IF cyc <= 6 THEN 2 ELSE IF cyc <= 20 THEN 5 ELSE 10

\* result: res (tribool), dead, dom
process_pending(dom0, id, h, cfg, cfread) ==
  LET cyc == min(dom0.pending_cycle + 1, PendingCycleCap)
      lim == pending_scan_period(cyc)
      skip == cyc > 3 /\ dom0.pending_skipped + 1 < lim
      dc == [ dom0 EXCEPT !.pending_cycle = cyc ]
      dk == [ dc EXCEPT !.pending_skipped = @ + 1 ]
      \* exam_cycle keeps the cycle of the last examination
      dp == [ dc EXCEPT !.pending_skipped = 0, !.exam_cycle = cyc ]
      complete == is_xs_data_complete(dp, id)
      again(d) == [ res |-> "TriMaybe", dead |-> FALSE,
                    dom |-> [d EXCEPT !.pending_skipped = 100] ]
      \* the domain is complete and sized: settings
      settle(db) ==
        Let1(retrieve_config_file_settings(db, h[id].cf, cfread), LAMBDA dr :
          IF dr.config_file_status = "TriTrue"
          THEN IF dr.resolved_config_seq = cfg.seq
               THEN [ res |-> "TriTrue", dead |-> FALSE, dom |-> dr ]
               ELSE Let1(resolve_settings(dr, cfg), LAMBDA rs :
                      IF rs.ok
                      THEN [ res |-> "TriTrue", dead |-> FALSE,
                             dom |-> [ rs.dom EXCEPT
                                         !.resolved_config_seq = cfg.seq ] ]
                      ELSE [ res |-> "TriFalse", dead |-> FALSE,
                             dom |-> rs.dom ])
          ELSE IF dr.config_file_status = "TriFalse"
            THEN [ res |-> "TriFalse", dead |-> FALSE, dom |-> dr ]
          ELSE [ res |-> "TriMaybe", dead |-> FALSE, dom |-> dr ])
      \* the xenstore data is complete: xen private data size
      sample(da) ==
        IF ~(da.xen_data_size_phase < cfg.xen_private_data_size_samples)
        THEN settle(da)
        ELSE Let1(eval_xen_data_size(da, id, h), LAMBDA ex :
          IF ex.c = "1" THEN again(ex.dom)
          ELSE IF ex.c = "c"
            THEN [ res |-> "TriMaybe", dead |-> FALSE, dom |-> ex.dom ]
          ELSE IF ex.c = "d"
            THEN [ res |-> "TriFalse", dead |-> TRUE, dom |-> ex.dom ]
          ELSE IF xen_data_size_restarts(da.xen_data_size_phase,
                                         da.xen_data_size,
                                         ex.dom.xen_data_size)
            THEN again([ex.dom EXCEPT !.xen_data_size_phase = 1])
          ELSE IF da.xen_data_size_phase + 1
                    < cfg.xen_private_data_size_samples
            THEN again([ex.dom EXCEPT !.xen_data_size_phase = @ + 1])
          ELSE settle([ex.dom EXCEPT !.xen_data_size_phase = @ + 1]))
  IN  IF id = 0 /\ cfg.dom0_mode = 0
        THEN [ res |-> "TriFalse", dead |-> FALSE, dom |-> dom0 ]
      ELSE IF skip
        THEN [ res |-> "TriMaybe", dead |-> FALSE, dom |-> dk ]
      ELSE IF complete
        THEN IF ~domain_alive(h, id)
             THEN [ res |-> "TriFalse", dead |-> TRUE, dom |-> dp ]
             ELSE Let1(dp, sample)
      ELSE Let1(process_pending_read_xs(dp, id, h), LAMBDA rx :
             IF rx.c = "c"
             THEN [ res |-> "TriMaybe", dead |-> FALSE, dom |-> rx.dom ]
             ELSE IF rx.c = "d"
             THEN [ res |-> "TriFalse", dead |-> TRUE, dom |-> rx.dom ]
             ELSE Let1(rx.dom, sample))

(***************************************************************************)
(* init_membalance_report: create (or reuse) the report slot of a domain   *)
(* that has just become managed.  commit_ok is the outcome of the          *)
(* xenstore transaction.                                                   *)
(***************************************************************************)
fresh_qid(xsq) ==
  CHOOSE q \in QIDS \ xsq : \A r \in QIDS \ xsq : q <= r

init_membalance_report_unchecked(w, id, commit_ok) ==
  [ ok |-> TRUE, w |-> w ]

init_membalance_report(w, id, commit_ok) ==
  LET reuse == w.xen[id].link # 0
      q == IF reuse THEN w.xen[id].link ELSE fresh_qid(w.xsq)
  IN  IF ~domain_alive(w.xen, id) \/ ~commit_ok
      THEN [ ok |-> FALSE, w |-> w ]
      ELSE [ ok |-> TRUE,
             w |-> [ w EXCEPT !.xsq = @ \cup {q},
                              !.xen[id].link = q,
                              !.managed[id].qid = q,
                              !.qid = (id :> q) @@ @ ] ]

(***************************************************************************)
(* process_pending_domains                                                 *)
(***************************************************************************)
\* a variant in which no pending domain ever times out
pending_timed_out_never(dom, cfg) == FALSE

\* the domain has been pending for longer than domain_pending_timeout
pending_timed_out(dom, cfg) == dom.since_noticed > cfg.domain_pending_timeout

\* first loop: classify every domain that was pending at entry;
\* st = [w, newm] where newm is new_managed_ids
RECURSIVE ppd_classify(_, _, _, _)
ppd_classify(st, ids, cfg, cfread) ==
  IF ids = {} THEN st
  ELSE
    LET id == lowest(ids)
        w == st.w
        classified(r) ==
          LET w1 == [ w EXCEPT !.pending[id] = r.dom ]
              timed_out == pending_timed_out(r.dom, cfg)
          IN  IF r.dead THEN [ st EXCEPT !.w = transition_pending_dead(w1, id) ]
              ELSE IF r.res = "TriTrue"
                THEN [ w |-> transition_pending_managed(w1, id),
                       newm |-> st.newm \cup {id} ]
              ELSE IF r.res = "TriFalse" \/ timed_out
                THEN [ st EXCEPT !.w = transition_pending_unmanaged(w1, id) ]
              ELSE [ st EXCEPT !.w = w1 ]
    IN  Let1(Let1(process_pending(w.pending[id], id, w.xen, cfg, cfread),
                  classified),
             LAMBDA st1 : ppd_classify(st1, ids \ {id}, cfg, cfread))

\* second loop: create the report slots of the newly managed domains
RECURSIVE ppd_init_reports(_, _, _)
ppd_init_reports(w, ids, commit_ok) ==
  IF ids = {} THEN w
  ELSE
    LET id == lowest(ids)
    IN  Let1(Let1(init_membalance_report(w, id, commit_ok), LAMBDA r :
               IF r.ok THEN r.w ELSE transition_managed_unmanaged(w, id)),
             LAMBDA w1 : ppd_init_reports(w1, ids \ {id}, commit_ok))

process_pending_domains_w(w, cfg, cfread, commit_ok) ==
  IF DOMAIN w.pending = {} THEN w
  ELSE
    Let1(ppd_classify([ w |-> w, newm |-> {} ], DOMAIN w.pending,
                      cfg, cfread),
         LAMBDA st : ppd_init_reports(st.w, st.newm, commit_ok))

(***************************************************************************)
(* rescan after configuration change, manage-domain request                *)
(***************************************************************************)
RECURSIVE rescan_managed_keeps(_, _, _)
rescan_managed_keeps(w, ids, cfg) ==
  IF ids = {} THEN w
  ELSE
    LET id == lowest(ids)
    IN  Let1(Let1(resolve_settings(w.managed[id], cfg), LAMBDA r :
               [ w EXCEPT !.managed[id] = r.dom ]),
             LAMBDA w2 : rescan_managed_keeps(w2, ids \ {id}, cfg))

RECURSIVE rescan_managed(_, _, _)
rescan_managed(w, ids, cfg) ==
  IF ids = {} THEN w
  ELSE
    LET id == lowest(ids)
    IN  Let1(Let1(resolve_settings(w.managed[id], cfg), LAMBDA r :
               IF r.ok THEN [ w EXCEPT !.managed[id] = r.dom ]
               ELSE transition_managed_unmanaged(
                      [ w EXCEPT !.managed[id] = r.dom ], id)),
             LAMBDA w2 : rescan_managed(w2, ids \ {id}, cfg))

RECURSIVE rescan_unmanaged(_, _, _)
rescan_unmanaged(w, ids, cfg) ==
  IF ids = {} THEN w
  ELSE
    LET id == lowest(ids)
    IN  Let1(IF id # 0 \/ cfg.dom0_mode # 0
             THEN transition_unmanaged_pending(w, id) ELSE w,
             LAMBDA w1 : rescan_unmanaged(w1, ids \ {id}, cfg))

\* a variant that leaves domain 0 where it is when the option changes
rescan_domains_on_config_change_keeps_dom0(w, old_config, cfg) ==
  Let1(rescan_managed(w, DOMAIN w.managed, cfg), LAMBDA w2 :
    IF resolve_settings_affected(old_config, cfg)
    THEN rescan_unmanaged(w2, w.unmanaged, cfg) ELSE w2)

rescan_domains_on_config_change(w, old_config, cfg) ==
  LET dom0_rescan ==
        IF cfg.dom0_mode # 0
        THEN IF 0 \in w.unmanaged
             THEN transition_unmanaged_pending(w, 0) ELSE w
        ELSE IF contains(w.managed, 0)
             THEN transition_managed_unmanaged(w, 0)
        ELSE IF contains(w.pending, 0)
             THEN transition_pending_unmanaged(w, 0)
        ELSE w
  IN  Let1(dom0_rescan, LAMBDA w1 :
        Let1(rescan_managed(w1, DOMAIN w1.managed, cfg), LAMBDA w2 :
          IF resolve_settings_affected(old_config, cfg)
          THEN rescan_unmanaged(w2, w1.unmanaged, cfg) ELSE w2))

rescan_domain_w(w, id, cfg) ==
  IF id = -1 THEN rescan_unmanaged(w, w.unmanaged, cfg)
  ELSE IF id = 0 /\ cfg.dom0_mode = 0 THEN w
  ELSE IF contains(w.managed, id) THEN w
  ELSE IF id \in w.unmanaged THEN transition_unmanaged_pending(w, id)
  ELSE w

(***************************************************************************)
(* handle_xs_watch_event                                                   *)
(***************************************************************************)
SUBPATHS == { "", "memory/static-max", "memory/target", "name" }

handle_xs_watch_event_w(w, id, subpath, cfg) ==
  LET h == w.xen
      present == h[id].alive /\ h[id].built
      inman == contains(w.managed, id)
      dom == IF inman THEN w.managed[id] ELSE w.pending[id]
      watched == subpath \in { "memory/static-max", "memory/target",
                               "memory/videoram", "name" }
      resolve == subpath \in { "memory/static-max", "memory/videoram" }
      rc == IF present THEN "TriTrue" ELSE "TriMaybe"
      d1 == IF ~present THEN dom
            ELSE CASE subpath = "memory/static-max" ->
                        [dom EXCEPT !.xs_mem_max = h[id].static_max]
                   [] subpath = "memory/target" ->
                        [dom EXCEPT !.xs_mem_target = h[id].target]
                   [] subpath = "memory/videoram" ->
                        [dom EXCEPT !.xs_mem_videoram = h[id].videoram]
                   [] subpath = "name" -> [dom EXCEPT !.vm_name = TRUE]
                   [] OTHER -> dom
      w1 == IF inman THEN [ w EXCEPT !.managed[id] = d1 ]
            ELSE [ w EXCEPT !.pending[id] = d1 ]
      w3 == IF watched /\ rc # "TriTrue" THEN unmanage_domain(w1, id)
            ELSE IF resolve /\ rc = "TriTrue" /\ inman
              THEN Let1(resolve_settings(d1, cfg), LAMBDA rs :
                     IF rs.ok THEN [ w EXCEPT !.managed[id] = rs.dom ]
                     ELSE transition_managed_unmanaged(
                            [ w EXCEPT !.managed[id] = rs.dom ], id))
            ELSE w1
  IN  IF id = 0 /\ cfg.dom0_mode = 0 THEN w
      ELSE IF subpath = ""
        THEN IF domain_alive(h, id)
             THEN IF ~is_domain_known(w, id)
                  THEN transition_new_pending(w, id) ELSE w
             ELSE transition_dead(w, id)
      ELSE IF contains(w.managed, id) \/ contains(w.pending, id) THEN w3
      ELSE IF id \in w.unmanaged
        THEN IF resolve
             THEN IF ~domain_alive(h, id)
                  THEN transition_unmanaged_dead(w, id)
                  ELSE transition_unmanaged_pending(w, id)
             ELSE w
      ELSE w

(***************************************************************************)
(* Memory scheduling: helpers                                              *)
(***************************************************************************)
shrink_protection_time == 1
slow_weights == << 10, 3, 2, 2, 1 >>

\* (long) (m * f) for a fraction f given as num sixteenths
scale(m, num) == (m * num) \div FracDenom

is_shrink_soft_protected_strict(dom, tick) ==
  tick - dom.last_expand_tick < shrink_protection_time

\* a variant that protects a domain for one tick more
is_shrink_soft_protected_longer(dom, tick) ==
  tick - dom.last_expand_tick <= shrink_protection_time + 1

is_shrink_soft_protected(dom, tick) ==
  tick - dom.last_expand_tick <= shrink_protection_time

rate_category(dom, rate) ==
  IF rate >= dom.rate_high THEN "C_HIGH"
  ELSE IF rate <= dom.rate_low THEN "C_LOW" ELSE "C_MID"

size_resist_category(dom, size) ==
  IF size > dom.dmem_quota THEN "C_HIGH"
  ELSE IF size <= dom.dmem_min THEN "C_LOW" ELSE "C_MID"

\* a variant that uses the size categories of the resistance force
size_expand_category_as_resist(dom, size) ==
  IF size > dom.dmem_quota THEN "C_HIGH"
  ELSE IF size <= dom.dmem_min THEN "C_LOW" ELSE "C_MID"

size_expand_category(dom, size) ==
  IF size >= dom.dmem_quota THEN "C_HIGH"
  ELSE IF size < dom.dmem_min THEN "C_LOW" ELSE "C_MID"

eval_incr(dom) ==
  LET m == roundup(scale(dom.memsize0, FracDenom + dom.dmem_incr),
                   memquant_kbs)
  IN  min(dom.dmem_max, max(dom.dmem_min, m))

\* a variant of eval_decr that charges no previous trim
eval_decr_uncharged(dom, tick) ==
  LET m1 == roundup(scale(dom.memsize0, FracDenom - dom.dmem_decr),
                    memquant_kbs)
  IN  min(dom.dmem_max, max(dom.dmem_min, m1))

\* a variant that lets a tick take a domain down to its dmem_min
eval_decr_uncapped(dom, tick) == dom.dmem_min

eval_decr(dom, tick) ==
  LET m0 == dom.memsize0
      m1 == roundup(scale(m0, FracDenom - dom.dmem_decr), memquant_kbs)
      m == min(dom.dmem_max, max(dom.dmem_min, m1))
      decr == max(m0 - m - dom.preshrink, 0)
      m2 == roundup(m0 - decr, memquant_kbs)
  IN  IF dom.preshrink # 0 /\ tick - dom.preshrink_tick <= 1
      THEN min(dom.dmem_max, max(dom.dmem_min, m2))
      ELSE m

eval_more_decr(dom) ==
  LET m == roundup(scale(dom.memsize, FracDenom - dom.dmem_decr),
                   memquant_kbs)
  IN  min(dom.dmem_max, max(dom.dmem_min, m))

begin_sched_tick(dom) ==
  [ dom EXCEPT !.trimming_to_quota = FALSE, !.valid_data = FALSE,
               !.valid_memory_data = FALSE, !.bid = << >>,
               !.grant = << >>, !.listed = {} ]

\* a variant that takes the whole allocation for the domain's own memory
record_memory_info_gross(dom0, h, id, tick) ==
  LET d1 == [ dom0 EXCEPT
                !.runnable = is_runnable(h, id),
                !.memsize = h[id].tot,
                !.memsize0 = h[id].tot,
                !.memgoal0 = roundup(dom0.xs_mem_target + dom0.xs_mem_videoram,
                                     pagesize_kbs) ]
  IN  [ d1 EXCEPT !.memsize_incr = eval_incr(d1),
                  !.memsize_decr = eval_decr(d1, tick),
                  !.valid_memory_data = TRUE ]

record_memory_info(dom0, h, id, tick) ==
  LET d1 == [ dom0 EXCEPT
                !.runnable = is_runnable(h, id),
                !.memsize = h[id].tot - dom0.xen_data_size,
                !.memsize0 = h[id].tot - dom0.xen_data_size,
                !.memgoal0 = roundup(dom0.xs_mem_target + dom0.xs_mem_videoram,
                                     pagesize_kbs) ]
  IN  [ d1 EXCEPT !.memsize_incr = eval_incr(d1),
                  !.memsize_decr = eval_decr(d1, tick),
                  !.valid_memory_data = TRUE ]

reset_preshrink(dom) == [ dom EXCEPT !.preshrink = 0, !.preshrink_tick = 0 ]

reeval_xen_data_size(dom, h, id, xen_free, cfg) ==
  LET totsize0 == h[id].tot
      restart == dom.xds_phase = 0 \/ dom.xds_totsize0 # totsize0
                 \/ dom.xds_memgoal0 # dom.memgoal0
                 \/ totsize0 < dom.memgoal0
  IN  IF ~is_runnable(h, id) THEN dom
      ELSE IF xen_free < pagesize_kbs * 100 THEN dom
      ELSE IF restart
        THEN [ dom EXCEPT !.xds_totsize0 = totsize0,
                          !.xds_memgoal0 = dom.memgoal0, !.xds_phase = 1 ]
      ELSE IF dom.xds_phase + 1 >= cfg.xen_private_data_size_samples
        THEN [ dom EXCEPT !.xen_data_size = totsize0 - dom.memgoal0 ]
      ELSE [ dom EXCEPT !.xds_phase = @ + 1 ]

\* weight_samples: k is the loop index, prev the tick of the sample taken
\* before, sr / sw the sums of weighted rates and of weights
RECURSIVE weight_loop(_, _, _, _, _)
weight_loop(hist, k, prev, sr, sw) ==
  LET nel == min(Len(slow_weights), Len(hist))
      rr == hist[k + 1]
      gap == prev - rr.tick - 1
      k2 == IF k # 0 THEN k + gap ELSE k
  IN  IF k >= nel THEN << sr, sw >>
      ELSE IF k # 0 /\ gap > 1 THEN << sr, sw >>
      ELSE IF k2 >= nel THEN << sr, sw >>
      ELSE weight_loop(hist, k2 + 1, rr.tick,
                       sr + rr.rate * slow_weights[k2 + 1],
                       sw + slow_weights[k2 + 1])

\* a variant that returns the weighted sum without dividing by the weights
weight_samples_sum(hist) ==
  Let1(weight_loop(hist, 0, 0, 0, 0), LAMBDA r : r[1])

weight_samples(hist) ==
  Let1(weight_loop(hist, 0, 0, 0, 0), LAMBDA r : r[1] \div r[2])

\* a variant whose slow rate is the peak of the history, not its average
calc_rates_peak(dom, tick) ==
  LET h1 == << [ tick |-> tick, rate |-> dom.rate ] >> \o dom.rate_history
      h2 == IF Len(h1) > Len(slow_weights)
            THEN SubSeq(h1, 1, Len(slow_weights)) ELSE h1
      peak == CHOOSE r \in { h2[k].rate : k \in DOMAIN h2 } :
                \A k \in DOMAIN h2 : h2[k].rate <= r
  IN  [ dom EXCEPT !.rate_history = h2, !.fast_rate = dom.rate,
                   !.slow_rate = peak ]

calc_rates(dom, tick) ==
  LET h1 == << [ tick |-> tick, rate |-> dom.rate ] >> \o dom.rate_history
      h2 == IF Len(h1) > Len(slow_weights)
            THEN SubSeq(h1, 1, Len(slow_weights)) ELSE h1
  IN  [ dom EXCEPT !.rate_history = h2, !.fast_rate = dom.rate,
                   !.slow_rate = max(dom.rate, weight_samples(h2)) ]

(***************************************************************************)
(* Memory scheduling, stage 1: data collection                             *)
(***************************************************************************)
\* what a guest left in its report key since the previous tick
NoReport == [ kind |-> "none", rate |-> 0, freepct |-> 0 ]
BadReport == [ kind |-> "bad", rate |-> 0, freepct |-> 0 ]
Report(rate, freepct) ==
  [ kind |-> "report", rate |-> rate, freepct |-> freepct ]

Rates == { 0, 100, 300 }

GoodReports == { Report(r, 10) : r \in Rates } \cup { Report(300, 50) }

ReportsOf(probe) ==
  CASE probe = "good" -> { NoReport } \cup GoodReports
    [] probe = "busy" -> { NoReport, Report(300, 10), Report(100, 10) }
    [] probe = "idle" -> { NoReport, Report(0, 10) }
    [] probe = "solo" -> { NoReport, Report(0, 100), Report(100, 10),
                           Report(300, 10) }
    [] probe = "bad" -> { BadReport }
    [] OTHER -> { NoReport }

ReportChoices(h, ids) ==
  { f \in [ IDS -> { NoReport, BadReport } \cup GoodReports
                       \cup ReportsOf("solo") ] :
      \A id \in IDS :
        f[id] \in (IF id \in ids /\ h[id].alive THEN ReportsOf(h[id].probe)
                   ELSE { NoReport }) }

\* first loop of stage_collect_data
RECURSIVE collect_memory_info(_, _, _, _, _)
collect_memory_info(w, ids, tick, xfree, cfg) ==
  IF ids = {} THEN w
  ELSE
    LET id == lowest(ids)
        d1 == begin_sched_tick(w.managed[id])
        w1 == IF ~domain_alive(w.xen, id) THEN unmanage_domain(w, id)
              ELSE Let1(reset_preshrink(record_memory_info(d1, w.xen, id,
                                                           tick)),
                        LAMBDA d2 :
                          [ w EXCEPT !.managed[id] =
                              reeval_xen_data_size(d2, w.xen, id, xfree,
                                                   cfg) ])
    IN  Let1(w1, LAMBDA w2 :
               collect_memory_info(w2, ids \ {id}, tick, xfree, cfg))

\* the part of the second loop run for a domain with a well-formed report
account_report(dom0, rep, tick, cfg) ==
  LET r1 == IF rep.freepct > cfg.guest_free_threshold THEN 0 ELSE rep.rate
      r2 == IF r1 <= dom0.rate_zero THEN 0 ELSE r1
      d1 == [ dom0 EXCEPT !.no_report_time = 0, !.last_report_tick = tick,
                          !.freepct = rep.freepct, !.rate = r2 ]
  IN  Let1(calc_rates(d1, tick), LAMBDA d2 :
        [ d2 EXCEPT
            !.time_rate_below_low =
               IF d2.slow_rate <= d2.rate_low THEN @ + cfg.interval ELSE 0,
            !.time_rate_below_high =
               IF d2.fast_rate < d2.rate_high THEN @ + cfg.interval ELSE 0 ])

\* the end of the body of the second loop
mark_valid_data(dom, tick) ==
  IF ~dom.runnable THEN dom
  ELSE IF tick > dom.last_report_tick + 1 THEN dom
  ELSE [ dom EXCEPT !.valid_data = TRUE ]

\* Second loop of stage_collect_data.  A malformed report unmanages the
\* domain and deletes its record, which the rest of the loop body goes
\* on using: what it reads there is arbitrary, so it may or may not
\* (stale_trim) ask the host to trim the domain to its quota; it does not
\* while the adjustment is paused, memsched_pause_level being no part of
\* the record.
RECURSIVE collect_reports(_, _, _, _, _, _, _)
collect_reports(w, ids, reps, tick, cfg, pause, stale_trim) ==
  IF ids = {} THEN w
  ELSE
    LET id == lowest(ids)
        dom == w.managed[id]
        rep == reps[id]
        ws == Let1(unmanage_domain(w, id), LAMBDA wu :
                IF stale_trim /\ pause = 0
                THEN Let1(trim_to_quota(wu.xen, dom, id), LAMBDA tq :
                       IF tq.res
                       THEN [ wu EXCEPT
                                !.xen = tq.xen,
                                !.orders = note_order(wu, dom, id, "trim",
                                                      dom.dmem_quota) ]
                       ELSE wu)
                ELSE wu)
        dn == [ dom EXCEPT !.no_report_time = @ + cfg.interval ]
        overdue == dn.trim_unresponsive > 0
                   /\ dn.no_report_time > dn.trim_unresponsive
                   /\ pause = 0
        trimmed(tq) ==
          IF tq.res
          THEN [ w EXCEPT !.xen = tq.xen,
                          !.orders = note_order(w, dn, id, "trim",
                                                dn.dmem_quota),
                          !.managed[id] =
                             [ tq.dom EXCEPT !.trimming_to_quota = TRUE,
                                             !.memgoal0 = dn.dmem_quota,
                                             !.memsize0 = dn.dmem_quota,
                                             !.memsize = dn.dmem_quota ] ]
          ELSE [ w EXCEPT !.managed[id] = mark_valid_data(dn, tick) ]
        w1 == IF rep.kind = "bad" THEN ws
              ELSE IF rep.kind = "report"
                THEN [ w EXCEPT !.managed[id] =
                         mark_valid_data(account_report(dom, rep, tick, cfg),
                                         tick) ]
              ELSE IF ~dom.runnable
                THEN w
              ELSE IF overdue
                THEN Let1(trim_to_quota(w.xen, dn, id), trimmed)
              ELSE [ w EXCEPT !.managed[id] = mark_valid_data(dn, tick) ]
    IN  Let1(w1, LAMBDA w2 :
          collect_reports(w2, ids \ {id}, reps, tick, cfg, pause, stale_trim))

RECURSIVE eval_memory_lien(_, _)
eval_memory_lien(md, ids) ==
  IF ids = {} THEN 0
  ELSE LET id == lowest(ids)
           dom == md[id]
           delta == dom.memgoal0 + dom.xen_data_size - dom.memsize0
       IN  (IF ~dom.runnable THEN max(0, delta) ELSE 0)
           + eval_memory_lien(md, ids \ {id})

\* result: the tick state t; ef0 is expand_force0, hang tells that the
\* tick never ends
stage_collect_data(w0, reps, tick, cfg, pause, stale_trim) ==
  Let1(get_xen_free_memory(w0.xen), LAMBDA xfree :
  Let1(collect_memory_info(w0, DOMAIN w0.managed, tick, xfree, cfg),
       LAMBDA w1 :
  Let1(collect_reports(w1, DOMAIN w1.managed, reps, tick, cfg, pause,
                       stale_trim), LAMBDA w2 :
  Let1(eval_memory_lien(w2.managed, DOMAIN w2.managed), LAMBDA lien :
  Let1(get_xen_free_memory(w2.xen), LAMBDA xf :
    [ w |-> w2, host_free |-> xf - get_xen_free_slack - lien,
      xen_free0 |-> xf, host_lien0 |-> lien,
      ef0 |-> [ id \in IDS |-> << 0, 1 >> ], hang |-> FALSE ])))))

(***************************************************************************)
(* domvector: sorting.  Keys are rationals << n, d >> with d > 0; ties are *)
(* broken by the address of the record (addr).                             *)
(***************************************************************************)
whole(n) == << n, 1 >>
less(a, b) == a[1] * b[2] < b[1] * a[2]

sort_asc(d1, d2, key, addr) ==
  IF less(key[d1], key[d2]) THEN TRUE
  ELSE IF less(key[d2], key[d1]) THEN FALSE
  ELSE addr[d1] < addr[d2]

sort_desc(d1, d2, key, addr) ==
  IF less(key[d2], key[d1]) THEN TRUE
  ELSE IF less(key[d1], key[d2]) THEN FALSE
  ELSE addr[d1] < addr[d2]

RECURSIVE sorted(_, _, _, _)
sorted(S, key, addr, asc) ==
  IF S = {} THEN << >>
  ELSE Let1(CHOOSE d1 \in S : \A d2 \in S \ {d1} :
              IF asc THEN sort_asc(d1, d2, key, addr)
              ELSE sort_desc(d1, d2, key, addr),
            LAMBDA x : Let1(S \ {x}, LAMBDA rest :
                         << x >> \o sorted(rest, key, addr, asc)))

\* the orders in which the records of the guests can lie in memory
AddrOrders == { [ id \in IDS |-> id ], [ id \in IDS |-> 0 - id ] }

(***************************************************************************)
(* Pressure forces                                                         *)
(***************************************************************************)
eval_force(rate, base, rmax) ==
  IF rmax # 0 THEN << base * rmax + rate, rmax >> ELSE whole(base)

force_base(c_rate, c_size) ==
  CASE c_rate = "C_MID" /\ c_size = "C_MID" -> 60
    [] c_rate = "C_MID" /\ c_size = "C_HIGH" -> 30
    [] c_rate = "C_HIGH" /\ c_size = "C_MID" -> 100
    [] c_rate = "C_HIGH" /\ c_size = "C_HIGH" -> 50
    [] OTHER -> 0

RECURSIVE max_rate(_, _, _)
max_rate(md, vec, slow) ==
  IF vec = {} THEN 0
  ELSE LET id == lowest(vec)
           r == IF slow THEN (IF md[id].valid_data THEN md[id].slow_rate ELSE 0)
                ELSE md[id].fast_rate
       IN  max(r, max_rate(md, vec \ {id}, slow))

eval_resist_force_context(md, vec) == max_rate(md, vec, TRUE)
eval_expand_force_context(md, vec) == max_rate(md, vec, FALSE)

eval_resist_force(rmax, dom) ==
  LET c_rate == rate_category(dom, dom.slow_rate)
      c_size == size_resist_category(dom, dom.memsize)
  IN  IF ~dom.valid_data
      THEN (CASE c_size = "C_LOW" -> whole(500)
              [] c_size = "C_MID" -> whole(62)
              [] OTHER -> whole(32))
      ELSE IF c_size = "C_LOW" THEN whole(500)
      ELSE IF c_rate = "C_LOW"
        THEN (IF c_size = "C_MID" THEN whole(40) ELSE whole(0))
      ELSE eval_force(dom.slow_rate, force_base(c_rate, c_size), rmax)

\* a variant in which a domain at or above its quota, with a rate in the
\* mid band, has no force to expand
eval_expand_force_to_quota(rmax, dom) ==
  LET c_rate == rate_category(dom, dom.fast_rate)
      c_size == size_expand_category(dom, dom.memsize)
  IN  IF c_rate = "C_LOW" THEN whole(0)
      ELSE IF c_size = "C_LOW"
        THEN (IF c_rate = "C_MID" THEN whole(200) ELSE whole(300))
      ELSE IF c_rate = "C_MID" /\ c_size = "C_HIGH" THEN whole(0)
      ELSE eval_force(dom.fast_rate, force_base(c_rate, c_size), rmax)

eval_expand_force(rmax, dom) ==
  LET c_rate == rate_category(dom, dom.fast_rate)
      c_size == size_expand_category(dom, dom.memsize)
  IN  IF c_rate = "C_LOW" THEN whole(0)
      ELSE IF c_size = "C_LOW"
        THEN (IF c_rate = "C_MID" THEN whole(200) ELSE whole(300))
      ELSE eval_force(dom.fast_rate, force_base(c_rate, c_size), rmax)

(***************************************************************************)
(* Stage 2: the hard reserve                                               *)
(***************************************************************************)
\* the loop shared by the rounds that walk a sorted vector once: trim each
\* domain down to its floor until the goal is met
RECURSIVE trim_loop(_, _, _, _)
trim_loop(md, vec, floor, goal) ==
  IF vec = << >> THEN [ md |-> md, goal |-> goal ]
  ELSE
    LET id == Head(vec)
        trim0 == md[id].memsize - floor[id]
        trim == min(trim0, goal)
    IN  IF trim0 <= 0 THEN trim_loop(md, Tail(vec), floor, goal)
        ELSE Let1([ md EXCEPT ![id].memsize = @ - trim ], LAMBDA md1 :
               IF goal - trim <= 0
               THEN [ md |-> md1, goal |-> goal - trim ]
               ELSE Let1(goal - trim, LAMBDA goal1 :
                      trim_loop(md1, Tail(vec), floor, goal1)))

time_low(md) == [ id \in DOMAIN md |-> whole(md[id].time_rate_below_low) ]
time_high(md) == [ id \in DOMAIN md |-> whole(md[id].time_rate_below_high) ]

hard_reclaim_round_1(r, addr) ==
  LET md == r.md
      vec == { id \in DOMAIN md :
                 /\ md[id].valid_data
                 /\ md[id].time_rate_below_low # 0
                 /\ md[id].runnable
                 /\ ~md[id].trimming_to_quota }
      floor == [ id \in DOMAIN md |-> md[id].memsize_decr ]
  IN  IF r.goal <= 0 THEN r
      ELSE Let1(sorted(vec, time_low(md), addr, FALSE), LAMBDA order :
             trim_loop(md, order, floor, r.goal))

hard_reclaim_round_2(r, addr) ==
  LET md == r.md
      vec == { id \in DOMAIN md :
                 /\ md[id].valid_data
                 /\ md[id].time_rate_below_high # 0
                 /\ md[id].memsize > md[id].dmem_quota
                 /\ md[id].memsize = md[id].memsize0
                 /\ md[id].runnable
                 /\ ~md[id].trimming_to_quota }
      floor == [ id \in DOMAIN md |->
                   max(md[id].memsize_decr, md[id].dmem_quota) ]
  IN  IF r.goal <= 0 THEN r
      ELSE Let1(sorted(vec, time_high(md), addr, FALSE), LAMBDA order :
             trim_loop(md, order, floor, r.goal))

hard_reclaim_round_3(r, addr) ==
  LET md == r.md
      vec == { id \in DOMAIN md :
                 /\ md[id].valid_data
                 /\ md[id].time_rate_below_high # 0
                 /\ md[id].memsize > md[id].dmem_quota
                 /\ md[id].runnable
                 /\ ~md[id].trimming_to_quota }
      floor == [ id \in DOMAIN md |->
                   max(eval_more_decr(md[id]), md[id].dmem_quota) ]
  IN  IF r.goal <= 0 THEN r
      ELSE Let1(sorted(vec, time_high(md), addr, FALSE), LAMBDA order :
             trim_loop(md, order, floor, r.goal))

\* one pass over the sorted vector in rounds 4 and 5: every domain gives
\* up to one more slice but stays at or above lim; a domain that reached
\* lim leaves the vector
RECURSIVE slice_pass(_, _, _, _, _)
slice_pass(md, order, vec, lim, goal) ==
  IF order = << >> THEN [ md |-> md, vec |-> vec, goal |-> goal ]
  ELSE
    LET id == Head(order)
        trim0 == md[id].memsize - max(eval_more_decr(md[id]), lim[id])
        trim == IF trim0 > 0 THEN min(trim0, goal) ELSE 0
    IN  Let1([ md EXCEPT ![id].memsize = @ - trim ], LAMBDA md1 :
          IF trim0 > 0 /\ goal - trim <= 0
          THEN [ md |-> md1, vec |-> vec, goal |-> goal - trim ]
          ELSE Let1(IF md1[id].memsize <= lim[id] THEN vec \ {id} ELSE vec,
                    LAMBDA vec1 :
                 Let1(goal - trim, LAMBDA goal1 :
                   slice_pass(md1, Tail(order), vec1, lim, goal1))))

\* the while loop of rounds 4 and 5; hang: a pass changed nothing, so
\* the loop never ends
RECURSIVE slice_loop(_, _, _, _, _)
slice_loop(md, vec, lim, goal, addr) ==
  IF goal <= 0 \/ vec = {} THEN [ md |-> md, goal |-> goal, hang |-> FALSE ]
  ELSE
    LET rmax == eval_resist_force_context(md, vec)
        key == [ id \in DOMAIN md |-> eval_resist_force(rmax, md[id]) ]
    IN  Let1(sorted(vec, key, addr, TRUE), LAMBDA order :
        Let1(slice_pass(md, order, vec, lim, goal), LAMBDA p :
          IF p.goal > 0 /\ p.vec = vec /\ p.md = md
          THEN [ md |-> md, goal |-> goal, hang |-> TRUE ]
          ELSE slice_loop(p.md, p.vec, lim, p.goal, addr)))

no_rate(dom, r) == [ dom EXCEPT !.rate = r, !.slow_rate = r, !.fast_rate = r ]

hard_reclaim_round_4(r, addr) ==
  LET vec == { id \in DOMAIN r.md :
                 /\ r.md[id].memsize > r.md[id].dmem_quota
                 /\ r.md[id].runnable
                 /\ ~r.md[id].trimming_to_quota }
      md == [ id \in DOMAIN r.md |->
                IF id \in vec /\ ~r.md[id].valid_data
                THEN no_rate(r.md[id], 0) ELSE r.md[id] ]
  IN  IF r.goal <= 0 THEN [ md |-> r.md, goal |-> r.goal, hang |-> FALSE ]
      ELSE Let1(md, LAMBDA md1 :
             Let1([ id \in DOMAIN md1 |-> md1[id].dmem_quota ], LAMBDA lim :
               slice_loop(md1, vec, lim, r.goal, addr)))

xen_domain_uptime(h, id) == IF id = 0 \/ ~h[id].alive THEN -1 ELSE h[id].uptime

\* a variant that leaves the domains where round 4 left them
hard_reclaim_round_5_none(r, h, addr) == r

hard_reclaim_round_5(r, h, addr) ==
  LET vec == { id \in DOMAIN r.md :
                 /\ r.md[id].memsize > r.md[id].dmem_min
                 /\ r.md[id].runnable }
      young(id) == /\ id # 0
                   /\ r.md[id].startup_time >= 0
                   /\ xen_domain_uptime(h, id) <= r.md[id].startup_time
      md == [ id \in DOMAIN r.md |->
                IF id \in vec /\ ~r.md[id].valid_data
                THEN no_rate(r.md[id],
                             IF young(id) THEN r.md[id].rate_high + 1 ELSE 0)
                ELSE r.md[id] ]
  IN  IF r.goal <= 0 \/ r.hang THEN r
      ELSE Let1(md, LAMBDA md1 :
             Let1([ id \in DOMAIN md1 |-> md1[id].dmem_min ], LAMBDA lim :
               slice_loop(md1, vec, lim, r.goal, addr)))

hard_reclaim(md, goal0, h, addr) ==
  LET goal == roundup(goal0, memquant_kbs)
  IN  Let1(hard_reclaim_round_1([ md |-> md, goal |-> goal ], addr),
           LAMBDA r1 :
      Let1(hard_reclaim_round_2(r1, addr), LAMBDA r2 :
      Let1(hard_reclaim_round_3(r2, addr), LAMBDA r3 :
      Let1(hard_reclaim_round_4(r3, addr), LAMBDA r4 :
      Let1(hard_reclaim_round_5(r4, h, addr), LAMBDA r5 :
        [ md |-> r5.md, reclaimed |-> goal - r5.goal, hang |-> r5.hang ])))))

\* the tick state t carries the registry w, the scheduler's free-memory
\* figures, and hang
sched_reserved_hard(t, cfg, addr) ==
  LET need == cfg.host_reserved_hard - t.host_free
  IN  IF t.host_free < cfg.host_reserved_hard
      THEN Let1(hard_reclaim(t.w.managed, need, t.w.xen, addr), LAMBDA r :
             [ t EXCEPT !.w.managed = r.md,
                        !.host_free = @ + r.reclaimed, !.hang = r.hang ])
      ELSE t

(***************************************************************************)
(* Stage 3: the soft reserve                                               *)
(***************************************************************************)
\* observation: the stages (3, 4) that took the domain into a vector of
\* domains to shrink are kept with the domain as listed
note_listed(md, vec, stage) ==
  [ id \in DOMAIN md |->
      IF id \in vec THEN [ md[id] EXCEPT !.listed = @ \cup {stage} ]
      ELSE md[id] ]

soft_candidate(dom, tick) ==
  /\ dom.valid_data
  /\ dom.memsize * FracDenom > dom.dmem_decr
  /\ dom.runnable
  /\ ~dom.trimming_to_quota
  /\ ~is_shrink_soft_protected(dom, tick)

soft_reclaim_round_1(r, tick, addr) ==
  LET md == r.md
      vec == { id \in DOMAIN md :
                 /\ soft_candidate(md[id], tick)
                 /\ md[id].time_rate_below_low # 0
                 /\ md[id].memsize > md[id].dmem_quota }
      floor == [ id \in DOMAIN md |->
                   max(md[id].memsize_decr, md[id].dmem_quota) ]
  IN  IF r.goal <= 0 THEN r
      ELSE Let1(sorted(vec, time_low(md), addr, FALSE), LAMBDA order :
             trim_loop(note_listed(md, vec, 3), order, floor, r.goal))

\* a variant of round 2 that trims down to dmem_min at once
soft_reclaim_round_2_to_min(r, tick, addr) ==
  LET md == r.md
      vec == { id \in DOMAIN md :
                 /\ soft_candidate(md[id], tick)
                 /\ md[id].time_rate_below_low # 0 }
      floor == [ id \in DOMAIN md |-> md[id].dmem_min ]
  IN  IF r.goal <= 0 THEN r
      ELSE Let1(sorted(vec, time_low(md), addr, FALSE), LAMBDA order :
             trim_loop(md, order, floor, r.goal))

soft_reclaim_round_2(r, tick, addr) ==
  LET md == r.md
      vec == { id \in DOMAIN md :
                 /\ soft_candidate(md[id], tick)
                 /\ md[id].time_rate_below_low # 0 }
      floor == [ id \in DOMAIN md |->
                   max(md[id].memsize_decr, md[id].dmem_min) ]
  IN  IF r.goal <= 0 THEN r
      ELSE Let1(sorted(vec, time_low(md), addr, FALSE), LAMBDA order :
             trim_loop(note_listed(md, vec, 3), order, floor, r.goal))

soft_reclaim_round_3(r, tick, addr) ==
  LET md == r.md
      vec == { id \in DOMAIN md :
                 /\ soft_candidate(md[id], tick)
                 /\ md[id].time_rate_below_high # 0
                 /\ md[id].memsize > md[id].dmem_quota }
      floor == [ id \in DOMAIN md |->
                   max(md[id].memsize_decr, md[id].dmem_quota) ]
  IN  IF r.goal <= 0 THEN r
      ELSE Let1(sorted(vec, time_high(md), addr, FALSE), LAMBDA order :
             trim_loop(note_listed(md, vec, 3), order, floor, r.goal))

soft_reclaim(md, goal0, tick, addr) ==
  LET goal == roundup(goal0, memquant_kbs)
  IN  Let1(soft_reclaim_round_1([ md |-> md, goal |-> goal ], tick, addr),
           LAMBDA r1 :
      Let1(soft_reclaim_round_2(r1, tick, addr), LAMBDA r2 :
      Let1(soft_reclaim_round_3(r2, tick, addr), LAMBDA r3 :
        [ md |-> r3.md, reclaimed |-> goal - r3.goal ])))

sched_reserved_soft(t, cfg, tick, addr) ==
  LET need == cfg.host_reserved_soft - t.host_free
  IN  IF t.host_free < cfg.host_reserved_soft
      THEN Let1(soft_reclaim(t.w.managed, need, tick, addr), LAMBDA r :
             [ t EXCEPT !.w.managed = r.md, !.host_free = @ + r.reclaimed ])
      ELSE t

(***************************************************************************)
(* Stage 4: rebalancing.  The loop state b holds the managed records md,   *)
(* host_free, the vectors ve (vec_expand) and vs (vec_shrink), and the     *)
(* per-domain expand_force (ef), resist_force (rf), balside (bal).         *)
(***************************************************************************)
insert_at(vec, k, id) ==
  SubSeq(vec, 1, k) \o << id >> \o SubSeq(vec, k + 1, Len(vec))

\* the binary searches of insert_into_vec_expand / insert_into_vec_shrink;
\* start and end are 0-based indices
RECURSIVE insert_pos(_, _, _, _, _, _)
insert_pos(vec, key, f, start, end, expanding) ==
  LET mid == (start + end) \div 2
      other == key[vec[mid + 1]]
      left == IF expanding THEN ~less(f, other) ELSE ~less(other, f)
  IN  IF start > end THEN start
      ELSE IF left THEN insert_pos(vec, key, f, start, mid - 1, expanding)
      ELSE insert_pos(vec, key, f, mid + 1, end, expanding)

insert_into_vec_expand(vec, ef, id) ==
  insert_at(vec, insert_pos(vec, ef, ef[id], 0, Len(vec) - 1, TRUE), id)

insert_into_vec_shrink(vec, rf, id) ==
  insert_at(vec, insert_pos(vec, rf, rf[id], 0, Len(vec) - 1, FALSE), id)

\* a variant that keeps no hard reserve
reserved_hard_none(cfg) == 0

\* config.host_reserved_hard as the expansion code reads it
reserved_hard(cfg) == cfg.host_reserved_hard

\* a variant that keeps the hard reserve only, whatever the force
free_allocate_hard_only(host_free0, expand_force, need, cfg) ==
  LET avail == host_free0 - reserved_hard(cfg)
  IN  IF avail <= 0 THEN 0
      ELSE rounddown(min(avail, need), memquant_kbs)

\* free_allocate: the amount granted from free memory
free_allocate(host_free0, expand_force, need, cfg) ==
  LET reserve == IF less(whole(resist_force_free_soft), expand_force)
                 THEN reserved_hard(cfg) ELSE cfg.host_reserved_soft
      avail == host_free0 - reserve
  IN  IF avail <= 0 THEN 0
      ELSE rounddown(min(avail, need), memquant_kbs)

\* a variant that forgets to debit host_free
expand_into_freemem_undebited(b, id, need, cfg) ==
  LET chunk == free_allocate(b.host_free, b.ef[id], need, cfg)
  IN  [ b EXCEPT !.md[id].memsize = @ + chunk ]

\* The domain keeps, as grant = << its expand force, host_free after the
\* grant >>, the last grant that free memory made to it in the tick.
expand_into_freemem(b, id, need, cfg) ==
  LET chunk == free_allocate(b.host_free, b.ef[id], need, cfg)
  IN  [ b EXCEPT !.md[id].memsize = @ + chunk, !.host_free = @ - chunk,
                 !.md[id].grant = IF chunk > 0
                                  THEN << b.ef[id], b.host_free - chunk >>
                                  ELSE @ ]

\* a variant that takes a victim down to its dmem_min
RECURSIVE rebalance_domains_to_min(_, _, _, _)
rebalance_domains_to_min(b, id, need, rmax) ==
  IF need <= 0 \/ b.vs = << >> THEN b
  ELSE
    LET v == Head(b.vs)
        victim == b.md[v]
        m == victim.dmem_min
        chunk == min(victim.memsize - m, need)
        c_size == size_resist_category(victim, victim.memsize)
        \* md1 is the sizes after the chunk has changed hands
        taken(md1) ==
          LET b1 == [ b EXCEPT !.md = [ md1 EXCEPT ![v].bid =
                                          << b.ef[id], b.rf[v] >> ],
                               !.bal[v] = "SHRINKING" ]
          IN  IF md1[v].memsize <= md1[v].memsize_decr
              THEN [ b1 EXCEPT !.vs = Tail(b.vs) ]
              ELSE IF c_size # size_resist_category(md1[v], md1[v].memsize)
                THEN Let1([ b.rf EXCEPT
                              ![v] = eval_resist_force(rmax, md1[v]) ],
                          LAMBDA rf1 :
                       [ b1 EXCEPT
                           !.rf = rf1,
                           !.vs = insert_into_vec_shrink(Tail(b.vs), rf1,
                                                         v) ])
              ELSE b1
    IN  IF b.bal[v] = "EXPANDING" \/ victim.memsize <= victim.memsize_decr
        THEN Let1([ b EXCEPT !.vs = Tail(b.vs) ], LAMBDA b3 :
               rebalance_domains_to_min(b3, id, need, rmax))
        ELSE IF ~less(b.rf[v], b.ef[id]) THEN b
        ELSE Let1(Let1([ b.md EXCEPT ![v].memsize = @ - chunk,
                                     ![id].memsize = @ + chunk ], taken),
                  LAMBDA b2 :
               Let1(need - chunk, LAMBDA need1 :
                 rebalance_domains_to_min(b2, id, need1, rmax)))

\* a variant that takes from a victim whatever its resist force is
RECURSIVE rebalance_domains_unbid(_, _, _, _)
rebalance_domains_unbid(b, id, need, rmax) ==
  IF need <= 0 \/ b.vs = << >> THEN b
  ELSE
    LET v == Head(b.vs)
        victim == b.md[v]
        m == IF victim.memsize > victim.dmem_quota
             THEN max(victim.memsize_decr, victim.dmem_quota)
             ELSE victim.memsize_decr
        chunk == min(victim.memsize - m, need)
        c_size == size_resist_category(victim, victim.memsize)
        \* md1 is the sizes after the chunk has changed hands
        taken(md1) ==
          LET b1 == [ b EXCEPT !.md = [ md1 EXCEPT ![v].bid =
                                          << b.ef[id], b.rf[v] >> ],
                               !.bal[v] = "SHRINKING" ]
          IN  IF md1[v].memsize <= md1[v].memsize_decr
              THEN [ b1 EXCEPT !.vs = Tail(b.vs) ]
              ELSE IF c_size # size_resist_category(md1[v], md1[v].memsize)
                THEN Let1([ b.rf EXCEPT
                              ![v] = eval_resist_force(rmax, md1[v]) ],
                          LAMBDA rf1 :
                       [ b1 EXCEPT
                           !.rf = rf1,
                           !.vs = insert_into_vec_shrink(Tail(b.vs), rf1,
                                                         v) ])
              ELSE b1
    IN  IF b.bal[v] = "EXPANDING" \/ victim.memsize <= victim.memsize_decr
        THEN Let1([ b EXCEPT !.vs = Tail(b.vs) ], LAMBDA b3 :
               rebalance_domains_unbid(b3, id, need, rmax))
        ELSE Let1(Let1([ b.md EXCEPT ![v].memsize = @ - chunk,
                                     ![id].memsize = @ + chunk ], taken),
                  LAMBDA b2 :
               Let1(need - chunk, LAMBDA need1 :
                 rebalance_domains_unbid(b2, id, need1, rmax)))

\* The forces in play at each transfer ("[victim] -> [dom] chunk" in the
\* debug log) are kept with the victim as bid = << expand force of the
\* requester, resist force of the victim >>, for its last transfer.
RECURSIVE rebalance_domains(_, _, _, _)
rebalance_domains(b, id, need, rmax) ==
  IF need <= 0 \/ b.vs = << >> THEN b
  ELSE
    LET v == Head(b.vs)
        victim == b.md[v]
        m == IF victim.memsize > victim.dmem_quota
             THEN max(victim.memsize_decr, victim.dmem_quota)
             ELSE victim.memsize_decr
        chunk == min(victim.memsize - m, need)
        c_size == size_resist_category(victim, victim.memsize)
        \* md1 is the sizes after the chunk has changed hands
        taken(md1) ==
          LET b1 == [ b EXCEPT !.md = [ md1 EXCEPT ![v].bid =
                                          << b.ef[id], b.rf[v] >> ],
                               !.bal[v] = "SHRINKING" ]
          IN  IF md1[v].memsize <= md1[v].memsize_decr
              THEN [ b1 EXCEPT !.vs = Tail(b.vs) ]
              ELSE IF c_size # size_resist_category(md1[v], md1[v].memsize)
                THEN Let1([ b.rf EXCEPT
                              ![v] = eval_resist_force(rmax, md1[v]) ],
                          LAMBDA rf1 :
                       [ b1 EXCEPT
                           !.rf = rf1,
                           !.vs = insert_into_vec_shrink(Tail(b.vs), rf1,
                                                         v) ])
              ELSE b1
    IN  IF b.bal[v] = "EXPANDING" \/ victim.memsize <= victim.memsize_decr
        THEN Let1([ b EXCEPT !.vs = Tail(b.vs) ], LAMBDA b3 :
               rebalance_domains(b3, id, need, rmax))
        ELSE IF ~less(b.rf[v], b.ef[id]) THEN b
        ELSE Let1(Let1([ b.md EXCEPT ![v].memsize = @ - chunk,
                                     ![id].memsize = @ + chunk ], taken),
                  LAMBDA b2 :
               Let1(need - chunk, LAMBDA need1 :
                 rebalance_domains(b2, id, need1, rmax)))

\* the while loop of sched_rebalance
RECURSIVE rebalance_loop(_, _, _, _)
rebalance_loop(b, rmax_e, rmax_r, cfg) ==
  IF b.ve = << >> THEN b
  ELSE
    LET id == Head(b.ve)
        dom == b.md[id]
        m == IF dom.memsize < dom.dmem_min
               THEN min(dom.dmem_min, dom.memsize_incr)
             ELSE IF dom.memsize < dom.dmem_quota
               THEN min(dom.dmem_quota, dom.memsize_incr)
             ELSE dom.memsize_incr
        need == m - dom.memsize
        c_size == size_expand_category(dom, dom.memsize)
        b0 == [ b EXCEPT !.bal[id] = "EXPANDING" ]
        \* chunk is what free memory gave, b1 the state after free memory
        \* or else the other domains have been asked
        expanded(chunk, b1) ==
          LET m1 == IF chunk # 0 THEN m ELSE dom.memsize
              d1 == b1.md[id]
          IN  IF chunk = 0 /\ d1.memsize = dom.memsize THEN b1
              ELSE IF d1.memsize >= d1.memsize_incr
                THEN Let1([ b1 EXCEPT !.ve = Tail(b.ve) ], LAMBDA b2 :
                       rebalance_loop(b2, rmax_e, rmax_r, cfg))
              ELSE IF size_expand_category(d1, d1.memsize) # c_size
                THEN Let1([ b1.ef EXCEPT
                              ![id] = eval_expand_force(rmax_e, d1) ],
                          LAMBDA ef1 :
                     Let1([ b1 EXCEPT
                              !.ef = ef1,
                              !.ve = insert_into_vec_expand(Tail(b.ve), ef1,
                                                            id) ],
                          LAMBDA b2 :
                       rebalance_loop(b2, rmax_e, rmax_r, cfg)))
              ELSE IF d1.memsize = m1 THEN [ b1 EXCEPT !.hang = TRUE ]
              ELSE rebalance_loop(b1, rmax_e, rmax_r, cfg)
    IN  IF b.bal[id] = "SHRINKING"
        THEN Let1([ b EXCEPT !.ve = Tail(b.ve) ], LAMBDA b2 :
               rebalance_loop(b2, rmax_e, rmax_r, cfg))
        ELSE IF need < 0 THEN [ b EXCEPT !.hang = TRUE ]
        ELSE Let1(expand_into_freemem(b0, id, need, cfg), LAMBDA bf :
             Let1(bf.md[id].memsize - dom.memsize, LAMBDA chunk :
             Let1(IF chunk # 0 THEN bf
                  ELSE rebalance_domains(b0, id, need, rmax_r), LAMBDA b1 :
               expanded(chunk, b1))))

\* t.ef0 keeps expand_force0 for the enactment
sched_rebalance(t, cfg, tick, addr) ==
  LET md == t.w.managed
      cand == { id \in DOMAIN md :
                  md[id].valid_data /\ md[id].runnable
                  /\ ~md[id].trimming_to_quota }
      rmax_e == eval_expand_force_context(md, cand)
      rmax_r == eval_resist_force_context(md, cand)
      vs == { id \in cand : ~(md[id].memsize <= md[id].memsize_decr
                               \/ is_shrink_soft_protected(md[id], tick)) }
      \* ef, rf: the forces of the candidates when the stage begins
      balance(ef, rf) ==
        LET ve == { id \in cand :
                      ~(ef[id][1] <= 0
                        \/ md[id].memsize >= md[id].memsize_incr) }
        IN  Let1([ md |-> note_listed(md, vs, 4),
                   host_free |-> t.host_free,
                   ve |-> sorted(ve, ef, addr, FALSE),
                   vs |-> sorted(vs, rf, addr, TRUE),
                   ef |-> ef, rf |-> rf,
                   bal |-> [ id \in DOMAIN md |-> "NEUTRAL" ],
                   hang |-> FALSE ], LAMBDA b0 :
            Let1(rebalance_loop(b0, rmax_e, rmax_r, cfg), LAMBDA b :
              [ t EXCEPT !.w.managed =
                           [ id \in DOMAIN b.md |->
                               IF id \in cand
                               THEN [ b.md[id] EXCEPT
                                        !.resist_force = b.rf[id] ]
                               ELSE b.md[id] ],
                         !.host_free = b.host_free,
                         !.ef0 = [ id \in IDS |->
                                     IF id \in cand THEN ef[id]
                                     ELSE whole(0) ],
                         !.hang = b.hang ]))
  IN  IF cand = {} THEN t
      ELSE Let1([ id \in DOMAIN md |->
                    IF id \in cand THEN eval_expand_force(rmax_e, md[id])
                    ELSE whole(0) ], LAMBDA ef :
           Let1([ id \in DOMAIN md |->
                    IF id \in cand THEN eval_resist_force(rmax_r, md[id])
                    ELSE whole(0) ], LAMBDA rf :
             balance(ef, rf)))

(***************************************************************************)
(* Enactment of the planned sizes                                          *)
(***************************************************************************)
do_resize_domain(w, id, size, action) ==
  LET r == set_memory_target(w.xen, w.managed[id], id, size)
  IN  [ w EXCEPT !.xen = r.xen, !.managed[id] = r.dom,
                 !.orders = note_order(w, w.managed[id], id, action, size) ]

do_expand_domain(w, id, size) == do_resize_domain(w, id, size, "+")
\* a variant that states the wrong intent
do_shrink_domain_as_expand(w, id, size) == do_resize_domain(w, id, size, "+")

do_shrink_domain(w, id, size) == do_resize_domain(w, id, size, "-")

regoal(w, id, size) ==
  [ do_resize_domain(w, id, size, "0") EXCEPT !.managed[id].memgoal0 = size ]

\* a variant that does not catch a size outside the domain's limits
plan_domain_unchecked(t, id, cfg) ==
  LET d2 == t.w.managed[id]
      again == \/ d2.memsize > d2.memsize0 /\ d2.memgoal0 > d2.memsize
               \/ d2.memsize < d2.memsize0 /\ d2.memgoal0 < d2.memsize
  IN  IF ~d2.runnable THEN t
      ELSE IF again THEN [ t EXCEPT !.w = regoal(t.w, id, d2.memsize) ]
      ELSE t

\* the body of the first loop of do_resize_domains for one domain
plan_domain(t, id, cfg) ==
  LET dom == t.w.managed[id]
      low == dom.memsize < dom.dmem_min
             /\ t.host_free > cfg.host_reserved_hard
      delta == min(dom.dmem_min - dom.memsize,
                   t.host_free - cfg.host_reserved_hard)
      raised == IF low THEN [ t EXCEPT !.w.managed[id].memsize = @ + delta,
                                       !.host_free = @ - delta ]
                ELSE t
      capped(t1) ==
        LET d1 == t1.w.managed[id]
            high == d1.memsize > d1.dmem_max
                    /\ ~(d1.memsize0 > d1.dmem_max
                         /\ d1.memsize <= d1.memsize0)
        IN  IF high
            THEN [ t1 EXCEPT !.w.managed[id].memsize = d1.dmem_max,
                             !.host_free = @ + d1.memsize - d1.dmem_max ]
            ELSE t1
      regoaled(t2) ==
        LET d2 == t2.w.managed[id]
            again == \/ d2.memsize > d2.memsize0 /\ d2.memgoal0 > d2.memsize
                     \/ d2.memsize < d2.memsize0 /\ d2.memgoal0 < d2.memsize
        IN  IF again THEN [ t2 EXCEPT !.w = regoal(t2.w, id, d2.memsize) ]
            ELSE t2
  IN  IF ~dom.runnable THEN t
      ELSE Let1(Let1(raised, capped), regoaled)

RECURSIVE plan_domains(_, _, _)
plan_domains(t, ids, cfg) ==
  IF ids = {} THEN t
  ELSE Let1(plan_domain(t, lowest(ids), cfg), LAMBDA t1 :
         plan_domains(t1, ids \ {lowest(ids)}, cfg))

RECURSIVE shrink_domains(_, _)
shrink_domains(w, vec) ==
  IF vec = << >> THEN w
  ELSE Let1(do_shrink_domain(w, Head(vec), w.managed[Head(vec)].memsize),
            LAMBDA w1 : shrink_domains(w1, Tail(vec)))

\* where a guest's allocation ends up once it has followed its target;
\* it cannot grow beyond the memory that is free
guest_settled(h, id) ==
  LET want == h[id].target + h[id].videoram + HostPhysMem.xen_data
      room == h[id].tot + get_xen_free_memory(h)
  IN  [ h EXCEPT ![id].tot = IF h[id].alive THEN min(want, room) ELSE @ ]

RECURSIVE guests_settled(_, _)
guests_settled(h, ids) ==
  IF ids = {} THEN h
  ELSE Let1(guest_settled(h, lowest(ids)), LAMBDA h1 :
         guests_settled(h1, ids \ {lowest(ids)}))

RECURSIVE mem_released_by(_, _, _, _)
mem_released_by(md, ids, down, h) ==
  IF ids = {} THEN 0
  ELSE
    LET id == lowest(ids)
        dom == md[id]
        part == IF ~h[id].alive
                  THEN min(dom.memsize0, dom.memsize) + dom.xen_data_size
                ELSE IF id \in down
                  THEN dom.memsize0 + dom.xen_data_size - h[id].tot
                ELSE 0
    IN  part + mem_released_by(md, ids \ {id}, down, h)

\* a variant that ignores the hard reserve
eval_allocate_unreserved(w, id, curr_size, prev_alloc, down, allocated, t, cfg) ==
  max(w.managed[id].memsize0, w.managed[id].memsize)

\* xinfo is the domain data that the loop collected before this pass; the
\* free memory of the host is read live
eval_allocate_at(w, xinfo, id, curr_size, prev_alloc, down, allocated, t, cfg) ==
  LET dom == w.managed[id]
      m1 == rounddown(
              max(t.xen_free0 - reserved_hard(cfg) - get_xen_free_slack
                  - t.host_lien0
                  + mem_released_by(w.managed, DOMAIN w.managed, down, xinfo)
                  - allocated, 0),
              pagesize_kbs) + prev_alloc
      m2 == rounddown(
              max(get_xen_free_memory(w.xen) - reserved_hard(cfg)
                  - get_xen_free_slack - t.host_lien0, 0),
              pagesize_kbs) + curr_size
  IN  min(max(min(m1, m2), dom.memsize0), dom.memsize)

eval_allocate(w, id, curr_size, prev_alloc, down, allocated, t, cfg) ==
  eval_allocate_at(w, w.xen, id, curr_size, prev_alloc, down, allocated, t, cfg)

\* The expansion loop.  The guests do not move while the loop runs its
\* body, so a retry after a sleep computes the same grant: a domain that
\* cannot be expanded to its planned size ends the loop.
RECURSIVE expand_domains(_, _, _, _, _, _, _)
expand_domains(w, vec, down, allocated, t, cfg, tick) ==
  IF vec = << >> THEN w
  ELSE
    LET id == Head(vec)
        dom == w.managed[id]
        curr_size == w.xen[id].tot - dom.xen_data_size
        granted(goal) ==
          LET a1 == IF goal > dom.memgoal0
                    THEN allocated + goal - dom.memsize0 ELSE allocated
          IN  Let1(IF goal > dom.memgoal0
                   THEN [ do_expand_domain(w, id, goal) EXCEPT
                            !.managed[id].last_expand_tick = tick ]
                   ELSE w, LAMBDA w1 :
                IF goal = dom.memsize
                THEN expand_domains(w1, Tail(vec), down, a1, t, cfg, tick)
                ELSE w1)
    IN  IF ~w.xen[id].alive
        THEN expand_domains(w, Tail(vec), down, allocated, t, cfg, tick)
        ELSE Let1(eval_allocate(w, id, curr_size, dom.memsize0, down,
                                allocated, t, cfg), granted)

\* a variant that enacts the expansions before the shrinks
enact_resizes_expand_first(t, vec_down, vec_up, down, cfg, tick, released) ==
  Let1(expand_domains(t.w, vec_up, down, 0, t, cfg, tick), LAMBDA w1 :
    [ t EXCEPT !.w = shrink_domains(w1, vec_down) ])

\* The shrink loop, the wait for the memory it releases and the expansion
\* loop of do_resize_domains.  released: the guests told to shrink have
\* done so by the time the expansion loop looks at the host.
enact_resizes(t, vec_down, vec_up, down, cfg, tick, released) ==
  Let1(shrink_domains(t.w, vec_down), LAMBDA w1 :
  Let1(IF released
       THEN [ w1 EXCEPT !.xen = guests_settled(w1.xen, down) ]
       ELSE w1, LAMBDA w2 :
    [ t EXCEPT !.w = expand_domains(w2, vec_up, down, 0, t, cfg, tick) ]))

\* do_resize_domains up to the point where the vectors are sorted
resize_plan(t0, cfg, addr) ==
  LET sort(t) ==
        LET md == t.w.managed
            run == { id \in DOMAIN md : md[id].runnable }
            up == { id \in run : md[id].memsize > md[id].memsize0 }
            down == { id \in run : md[id].memsize < md[id].memsize0 }
            change == [ id \in DOMAIN md |->
                          whole(md[id].memsize - md[id].memsize0) ]
        IN  [ t |-> t, down |-> down,
              vec_down |-> sorted(down, change, addr, TRUE),
              vec_up |-> sorted(up, t.ef0, addr, FALSE) ]
  IN  Let1(plan_domains(t0, DOMAIN t0.w.managed, cfg), sort)

do_resize_domains(t0, cfg, tick, addr, released) ==
  Let1(resize_plan(t0, cfg, addr), LAMBDA p :
    enact_resizes(p.t, p.vec_down, p.vec_up, p.down, cfg, tick, released))

(***************************************************************************)
(* The expansion loop of do_resize_domains, pass by pass                   *)
(***************************************************************************)
MSEC_PER_SEC == 1000
domain_expansion_timeout_frac == << 3, 10 >>
domain_expansion_timeout_max == 5
domain_expansion_timeout_abort == 4

\* where the loop stands: the domains still to expand, the domains that
\* were told to shrink, prev, the memory handed out, the sleeps since
\* memory was last handed out, the time in ms since ts0, the domain data
\* last collected, and how the loop was left
NoEnact ==
  [ on |-> FALSE, vec_up |-> << >>, down |-> {}, tick |-> 0,
    prev_dom |-> -1, prev_goal |-> 0, prev_alloc |-> 0,
    allocated |-> 0, nomem_cycles |-> 0, elapsed |-> 0,
    read_xinfo |-> TRUE, xinfo |-> << >>, left |-> "none" ]

enact_start(vec_up, down, tick) ==
  [ NoEnact EXCEPT !.on = vec_up # << >>, !.vec_up = vec_up, !.down = down,
                   !.tick = tick,
                   !.left = IF vec_up = << >> THEN "done" ELSE "none" ]

\* "while (vec_up.size() != 0)" after remove_at(vec_up, 0) and continue
enact_continue(e) ==
  [ e EXCEPT !.vec_up = Tail(@), !.on = Tail(e.vec_up) # << >>,
             !.left = IF Tail(e.vec_up) = << >> THEN "done" ELSE @ ]

enact_break(e, why) == [ e EXCEPT !.on = FALSE, !.left = why ]

domain_expansion_timeout_ms(cfg) ==
  min(domain_expansion_timeout_max * MSEC_PER_SEC,
      (domain_expansion_timeout_frac[1] * cfg.interval * MSEC_PER_SEC)
        \div domain_expansion_timeout_frac[2])

\* a variant that sleeps and retries whatever the counters say
expansion_wait_forever(e, cfg, late) ==
  [ e EXCEPT !.read_xinfo = TRUE ]

\* the end of a pass that could not satisfy the head domain: give up, or
\* sleep and retry.  late is the time by which usleep and the pass
\* overran the 100 ms asked for.
expansion_wait(e, cfg, late) ==
  LET ms == domain_expansion_timeout_ms(cfg) - e.elapsed
  IN  IF e.nomem_cycles >= domain_expansion_timeout_abort
        THEN enact_break(e, "abort")
      ELSE IF Cardinality(e.down) = 0 THEN enact_break(e, "noshrink")
      ELSE IF ms <= 0 THEN enact_break(e, "budget")
      ELSE [ e EXCEPT !.elapsed = @ + min(100, ms) + late,
                      !.read_xinfo = TRUE,
                      !.nomem_cycles = @ + 1 ]

\* a pass from "if (prev.dom != dom)" on, the head domain being alive
expand_head(w, e1, t, cfg, late) ==
  LET id == Head(e1.vec_up)
      dom == w.managed[id]
      curr_size == e1.xinfo[id].tot - dom.xen_data_size
      granted(e2, goal) ==
        Let1(IF goal > e2.prev_goal
             THEN [ w |-> [ do_expand_domain(w, id, goal) EXCEPT
                              !.managed[id].last_expand_tick = e2.tick ],
                    e |-> [ e2 EXCEPT !.allocated = @ + goal - e2.prev_alloc,
                                      !.prev_alloc = goal, !.prev_goal = goal,
                                      !.nomem_cycles = 0 ] ]
             ELSE [ w |-> w, e |-> e2 ], LAMBDA r :
          IF goal = dom.memsize THEN [ r EXCEPT !.e = enact_continue(r.e) ]
          ELSE [ r EXCEPT !.e = expansion_wait(r.e, cfg, late) ])
  IN  Let1(IF e1.prev_dom # id
           THEN [ e1 EXCEPT !.prev_dom = id, !.prev_goal = dom.memgoal0,
                            !.prev_alloc = dom.memsize0 ]
           ELSE e1, LAMBDA e2 :
        Let1(eval_allocate_at(w, e1.xinfo, id, curr_size, e2.prev_alloc,
                              e2.down, e2.allocated, t, cfg), LAMBDA goal :
          granted(e2, goal)))

\* one pass of the loop
expand_pass(w, e0, t, cfg, late) ==
  Let1(IF e0.read_xinfo
       THEN [ e0 EXCEPT !.xinfo = w.xen, !.read_xinfo = FALSE ]
       ELSE e0, LAMBDA e1 :
    IF ~e1.xinfo[Head(e1.vec_up)].alive
    THEN [ w |-> w, e |-> enact_continue(e1) ]
    ELSE expand_head(w, e1, t, cfg, late))

(***************************************************************************)
(* sched_memory                                                            *)
(***************************************************************************)
\* observation: the size planned for each domain when stage 2 is over
note_hard(t) ==
  LET md == t.w.managed
  IN  [ t EXCEPT !.w.managed =
          [ id \in DOMAIN md |->
              [ md[id] EXCEPT !.memsize_hard = md[id].memsize,
                              !.memsize_soft = md[id].memsize ] ] ]

\* the size that stage 3 leaves each domain with, kept as memsize_soft
note_soft(t) ==
  LET md == t.w.managed
  IN  [ t EXCEPT !.w.managed =
          [ id \in DOMAIN md |->
              [ md[id] EXCEPT !.memsize_soft = md[id].memsize ] ] ]

\* stages 2 to 4 of a tick
sched_plan(t1, cfg, tick, addr) ==
  Let1(note_hard(sched_reserved_hard(t1, cfg, addr)), LAMBDA t2 :
    IF t2.hang THEN t2
    ELSE Let1(note_soft(sched_reserved_soft(t2, cfg, tick, addr)), LAMBDA t3 :
           sched_rebalance(t3, cfg, tick, addr)))

sched_stages(t1, cfg, tick, addr, released) ==
  Let1(sched_plan(t1, cfg, tick, addr), LAMBDA t4 :
    IF t4.hang THEN t4
    ELSE do_resize_domains(t4, cfg, tick, addr, released))

\* a variant that goes on to adjust the domains while paused
sched_memory_w_unpaused(w0, ev, reps, tick, cfg, pause, addr, stale_trim, released) ==
  Let1(IF ev = -1 THEN w0 ELSE handle_xs_watch_event_w(w0, ev, "", cfg),
       LAMBDA w1 :
    Let1(stage_collect_data(w1, reps, tick, cfg, pause, stale_trim),
         LAMBDA t1 : sched_stages(t1, cfg, tick, addr, released)))

\* sched_memory after sched_tick++, with the watch event ev (if any) that
\* refresh_xs finds
sched_memory_w(w0, ev, reps, tick, cfg, pause, addr, stale_trim, released) ==
  Let1(IF ev = -1 THEN w0 ELSE handle_xs_watch_event_w(w0, ev, "", cfg),
       LAMBDA w1 :
    Let1(stage_collect_data(w1, reps, tick, cfg, pause, stale_trim),
         LAMBDA t1 :
      IF pause # 0 THEN note_hard(t1)
      ELSE sched_stages(t1, cfg, tick, addr, released)))

\* sched_memory while the adjustment is not paused, up to the point where
\* the shrink loop of do_resize_domains has run and the expansion loop is
\* about to start
sched_memory_shrunk_w(w0, ev, reps, tick, cfg, addr, stale_trim) ==
  Let1(IF ev = -1 THEN w0 ELSE handle_xs_watch_event_w(w0, ev, "", cfg),
       LAMBDA w1 :
    Let1(sched_plan(stage_collect_data(w1, reps, tick, cfg, 0, stale_trim),
                    cfg, tick, addr),
         LAMBDA t4 :
      IF t4.hang THEN [ t |-> t4, vec_up |-> << >>, down |-> {} ]
      ELSE Let1(resize_plan(t4, cfg, addr), LAMBDA p :
             [ t |-> [ p.t EXCEPT !.w = shrink_domains(p.t.w, p.vec_down) ],
               vec_up |-> p.vec_up, down |-> p.down ])))

\* sched_slept: the ticks that were due while no domain was managed; time
\* slept beyond MaxSlept seconds is not counted
sched_slept(since, cfg) == since \div cfg.interval

(***************************************************************************)
(* sched_freemem: the free-memory command                                  *)
(***************************************************************************)
calc_avail(mfree, lien, above_slack, draw_reserved_hard, cfg) ==
  rounddown(max(mfree - (IF above_slack THEN get_xen_free_slack ELSE 0)
                      - (IF ~draw_reserved_hard THEN cfg.host_reserved_hard
                         ELSE 0)
                      - lien, 0),
            memquant_kbs)

\* the loop of collect_domain_memory_info
RECURSIVE refresh_memory_info(_, _, _)
refresh_memory_info(w, ids, tick) ==
  IF ids = {} THEN w
  ELSE
    LET id == lowest(ids)
    IN  Let1(IF ~domain_alive(w.xen, id) THEN unmanage_domain(w, id)
             ELSE [ w EXCEPT !.managed[id] =
                      record_memory_info(w.managed[id], w.xen, id, tick) ],
             LAMBDA w1 : refresh_memory_info(w1, ids \ {id}, tick))

\* ev is the watch event that refresh_xs finds, -1 if there is none
collect_domain_memory_info(w, ev, tick, cfg) ==
  Let1(IF ev = -1 THEN w ELSE handle_xs_watch_event_w(w, ev, "", cfg),
       LAMBDA w1 : refresh_memory_info(w1, DOMAIN w1.managed, tick))

RECURSIVE freeable_memory(_, _)
freeable_memory(md, ids) ==
  IF ids = {} THEN 0
  ELSE LET id == lowest(ids)
           dom == md[id]
       IN  (IF dom.memsize > dom.dmem_min /\ dom.runnable
            THEN dom.memsize - dom.dmem_min ELSE 0)
           + freeable_memory(md, ids \ {id})

\* a variant that issues no order
freemem_shrink_skipped(w, ids, tick) == w

\* "Execute shrinking" in sched_freemem
RECURSIVE freemem_shrink(_, _, _)
freemem_shrink(w, ids, tick) ==
  IF ids = {} THEN w
  ELSE
    LET id == lowest(ids)
        dom == w.managed[id]
        base == IF dom.preshrink_tick # tick THEN 0 ELSE dom.preshrink
        shrunk(w1) ==
          [ w1 EXCEPT !.managed[id].preshrink_tick = tick,
                      !.managed[id].preshrink =
                         base + max(0, dom.memsize0 - dom.memsize) ]
    IN  Let1(IF dom.memsize < dom.memgoal0 /\ dom.runnable
             THEN Let1(do_shrink_domain(w, id, dom.memsize), shrunk)
             ELSE w,
             LAMBDA w2 : freemem_shrink(w2, ids \ {id}, tick))

\* a variant that goes on with a request it cannot satisfy
freemem_refuses_never(must, req, max_avail) == FALSE

\* "if (must && req > max_avail)"
freemem_refuses(must, req, max_avail) == must /\ req > max_avail

NoCall == [ req |-> 0, above_slack |-> FALSE,
            draw_reserved_hard |-> FALSE, must |-> FALSE ]

\* the reply, with the call it answers
Reply(status, with_slack, less_slack) ==
  [ status |-> status, freemem_with_slack |-> with_slack,
    freemem_less_slack |-> less_slack, call |-> NoCall ]

\* result: the registry w, the reply, and hang (hard_reclaim never ends).
\* ev, ev2: the watch events found by the two calls of
\* collect_domain_memory_info; released: the guests told to shrink have
\* done so before xen_wait_free_memory gives up.
freemem_paused(w0, pause, cfg, tick, req0, above_slack, draw_reserved_hard, must, ev, ev2, addr, released) ==
    Let1(get_xen_free_memory(w0.xen), LAMBDA xen_free_memory :
    Let1(collect_domain_memory_info(w0, ev, tick, cfg), LAMBDA w1 :
      LET md == w1.managed
          lien == eval_memory_lien(md, DOMAIN md)
          freeable == freeable_memory(md, DOMAIN md)
          max_xen_free_memory == xen_free_memory + freeable
          max_avail == calc_avail(max_xen_free_memory, lien, above_slack,
                                  draw_reserved_hard, cfg)
          max_avail_with_slack == calc_avail(max_xen_free_memory, lien, FALSE,
                                             draw_reserved_hard, cfg)
          max_avail_less_slack == calc_avail(max_xen_free_memory, lien, TRUE,
                                             draw_reserved_hard, cfg)
          req == roundup(req0, memquant_kbs)
          avail == calc_avail(xen_free_memory, lien, above_slack, FALSE, cfg)
          avail_with_slack == calc_avail(xen_free_memory, lien, FALSE, FALSE,
                                         cfg)
          avail_less_slack == calc_avail(xen_free_memory, lien, TRUE, FALSE,
                                         cfg)
          cond_free_slack == IF above_slack THEN get_xen_free_slack ELSE 0
          reclaim == roundup(min(max(req + cfg.host_reserved_hard
                                     + cond_free_slack + lien
                                     - xen_free_memory, 0), freeable),
                             memquant_kbs)
          \* after the shrink orders, w3 is the registry and xfree the free
          \* memory that xen_wait_free_memory returns
          report(w3, xfree) ==
            Let1(collect_domain_memory_info(w3, ev2, tick, cfg), LAMBDA w4 :
              LET lien4 == eval_memory_lien(w4.managed, DOMAIN w4.managed)
              IN  [ w |-> w4,
                    reply |-> Reply("A",
                                calc_avail(xfree, lien4, FALSE,
                                           draw_reserved_hard, cfg),
                                calc_avail(xfree, lien4, TRUE,
                                           draw_reserved_hard, cfg)),
                    hang |-> FALSE ])
          squeeze(r) ==
            IF r.hang THEN [ w |-> w1, reply |-> Reply("none", 0, 0),
                             hang |-> TRUE ]
            ELSE IF r.reclaimed < reclaim /\ must
              THEN [ w |-> [ w1 EXCEPT !.managed = r.md ],
                     reply |-> Reply("N", avail_with_slack, avail_less_slack),
                     hang |-> FALSE ]
            ELSE
              Let1(freemem_shrink([ w1 EXCEPT !.managed = r.md ],
                                  DOMAIN r.md, tick), LAMBDA w2 :
              Let1(IF released
                   THEN [ w2 EXCEPT
                            !.xen = guests_settled(
                                      @, { o.id : o \in
                                             { w2.orders[k] :
                                                 k \in DOMAIN w2.orders } }) ]
                   ELSE w2, LAMBDA w3 :
                report(w3, get_xen_free_memory(w3.xen))))
      IN  IF req0 <= 0
            THEN [ w |-> w1,
                   reply |-> Reply("A", max_avail_with_slack,
                                   max_avail_less_slack),
                   hang |-> FALSE ]
          ELSE IF freemem_refuses(must, req, max_avail)
            THEN [ w |-> w1,
                   reply |-> Reply("N", max_avail_with_slack,
                                   max_avail_less_slack),
                   hang |-> FALSE ]
          ELSE IF req <= avail
            THEN [ w |-> w1,
                   reply |-> Reply("A", avail_with_slack, avail_less_slack),
                   hang |-> FALSE ]
          ELSE Let1(hard_reclaim(md, reclaim, w1.xen, addr), squeeze)))

\* a variant that serves the request whether or not the scheduler is paused
sched_freemem_unguarded(w0, pause, cfg, tick, req0, above_slack, draw_reserved_hard, must, ev, ev2, addr, released) ==
  freemem_paused(w0, pause, cfg, tick, req0, above_slack,
                 draw_reserved_hard, must, ev, ev2, addr, released)

sched_freemem(w0, pause, cfg, tick, req0, above_slack, draw_reserved_hard, must, ev, ev2, addr, released) ==
  IF pause = 0 THEN [ w |-> w0, reply |-> Reply("P", 0, 0), hang |-> FALSE ]
  ELSE freemem_paused(w0, pause, cfg, tick, req0, above_slack,
                      draw_reserved_hard, must, ev, ev2, addr, released)

(***************************************************************************)
(* State, actions                                                          *)
(***************************************************************************)
World ==
  [ pending |-> doms_pending, managed |-> doms_managed,
    unmanaged |-> doms_unmanaged, qid |-> doms_qid, xsq |-> xs_qids,
    resuming |-> resuming_memsched, xen |-> xen, trail |-> {},
    orders |-> << >> ]

\* the handler's result is computed once
Commit(result) ==
  \E w \in { result } :
    /\ doms_pending' = w.pending
    /\ doms_managed' = w.managed
    /\ doms_unmanaged' = w.unmanaged
    /\ doms_qid' = w.qid
    /\ xs_qids' = w.xsq
    /\ resuming_memsched' = w.resuming
    /\ xen' = w.xen
    /\ trail' = w.trail
    /\ orders' = w.orders

NoReply == Reply("none", 0, 0)

\* trail, orders and reply describe the last step only
Quiet ==
  /\ trail' = {}
  /\ orders' = << >>
  /\ reply' = NoReply

sched_vars == << sched_tick, host_free, xen_free0, host_lien0,
                 memsched_pause_level, freemem_calls, enact >>

EmptyMap == [ x \in {} |-> new_domain_info ]
EmptyQid == [ x \in {} |-> 0 ]

HostOf(d1, d2) == [ id \in IDS |-> IF id = 0 THEN Dom0
                                   ELSE IF id = 1 THEN d1 ELSE d2 ]

\* the kinds of domain the administrator creates: a domain with a guest
\* whose reports are malformed, one with no membalance guest software,
\* one whose dmem_max exceeds the static-max it is created with, and one
\* whose construction never completes
RegistryDomains ==
  { NewDomain(cf_auto, 768, TRUE, "bad"),
    NewDomain(cf_direct, 768, TRUE, "none"),
    NewDomain(cf_big, 768, TRUE, "none"),
    NewDomain(cf_auto, 768, FALSE, "none") }

RegistryDomU == { 1 }
RegistryIds == {0} \cup RegistryDomU

RegistryHosts ==
  { HostOf(NoDomain, NoDomain),
    HostOf(NewDomain(cf_auto, 768, TRUE, "bad"), NoDomain) }

InitCommon ==
  /\ doms_pending = EmptyMap
  /\ doms_managed = EmptyMap
  /\ doms_unmanaged = {}
  /\ doms_qid = EmptyQid
  /\ xs_qids = {}
  /\ watchq = {}
  /\ trail = {}
  /\ orders = << >>
  /\ reply = NoReply
  /\ started = FALSE
  /\ resuming_memsched = FALSE
  /\ since_pending = 0
  /\ since_sched = 0
  /\ sched_tick = sched_tick0
  /\ host_free = 0
  /\ xen_free0 = 0
  /\ host_lien0 = 0
  /\ memsched_pause_level = 0
  /\ freemem_calls = 0
  /\ enact = NoEnact

Init ==
  /\ InitCommon
  /\ config \in ConfFiles
  /\ xen \in RegistryHosts

\* membalanced.cpp main(): resync_qid (nothing to resync on a host that
\* has no membalance keys yet), enumerate_local_domains_as_pending,
\* process_pending_domains, ts0_pending = ts0_sched = getnow()
RECURSIVE enumerate_as_pending(_, _)
enumerate_as_pending(w, ids) ==
  IF ids = {} THEN w
  ELSE LET id == lowest(ids)
       IN  Let1(IF ~is_domain_known(w, id)
                THEN transition_new_pending(w, id) ELSE w,
                LAMBDA w1 : enumerate_as_pending(w1, ids \ {id}))

enumerate_local_domains_as_pending(w) ==
  enumerate_as_pending(w, { id \in IDS : w.xen[id].alive })

CfReads == { "ok", "empty" }

main_startup ==
  /\ ~started
  /\ \E cfread \in CfReads, commit_ok \in BOOLEAN :
       Commit(process_pending_domains_w(
                enumerate_local_domains_as_pending(World),
                config, cfread, commit_ok))
  /\ started' = TRUE
  /\ since_pending' = 0
  /\ since_sched' = 0
  /\ reply' = NoReply
  /\ UNCHANGED << config, watchq, sched_vars >>

\* The main loop sleeps in poll() no longer than until the next
\* processing point (calc_wait_ms), so a second passes only when neither
\* the pending pass nor the scheduling tick is due.
pending_due == DOMAIN doms_pending # {} /\ since_pending >= 1
sched_due == DOMAIN doms_managed # {} /\ since_sched >= config.interval

TimePasses ==
  /\ started
  /\ ~pending_due
  /\ ~sched_due
  /\ since_pending' = elapse(since_pending, 1)
  /\ since_sched' = elapse(since_sched, MaxSlept)
  /\ doms_pending' =
       [ id \in DOMAIN doms_pending |->
           [ doms_pending[id] EXCEPT !.since_noticed = elapse(@, MaxAge) ] ]
  /\ Quiet
  /\ UNCHANGED << doms_managed, doms_unmanaged, doms_qid, config, started,
                  resuming_memsched, sched_vars, xen, xs_qids, watchq >>

\* main loop: "Any pending domains due to be processed?"
process_pending_domains ==
  /\ started
  /\ pending_due
  /\ \E cfread \in CfReads, commit_ok \in BOOLEAN :
       Commit(process_pending_domains_w(World, config, cfread, commit_ok))
  /\ since_pending' = 0
  /\ reply' = NoReply
  /\ UNCHANGED << config, started, since_sched, sched_vars, watchq >>

handle_xs_watch_event ==
  /\ started
  /\ \E id \in RegistryIds, subpath \in SUBPATHS :
       /\ Commit(handle_xs_watch_event_w(World, id, subpath, config))
       /\ watchq' = IF subpath = "" THEN watchq \ {id} ELSE watchq
  /\ reply' = NoReply
  /\ UNCHANGED << config, started, since_pending, since_sched, sched_vars >>

rescan_domain ==
  /\ started
  /\ \E id \in RegistryIds \cup {-1} : Commit(rescan_domain_w(World, id, config))
  /\ reply' = NoReply
  /\ UNCHANGED << config, started, since_pending, since_sched, sched_vars,
                  watchq >>

\* SIGHUP: load_configuration(true), then rescan_domains_on_config_change;
\* the file may also be unreadable, which leaves config as it is
reload_configuration ==
  /\ started
  /\ \E file \in ConfFiles, readable \in BOOLEAN :
       \E cfg \in { IF ~readable THEN config
                    ELSE [ file EXCEPT !.seq = config.seq + 1 ] } :
         /\ readable => config.seq < MaxSeq
         /\ config' = cfg
         /\ Commit(rescan_domains_on_config_change(World, config, cfg))
  /\ reply' = NoReply
  /\ UNCHANGED << started, since_pending, since_sched, sched_vars, watchq >>

\* the choices that stay open in a tick: the order of equal sort keys
\* matters when two domains are sorted, what the stale record holds when
\* a report is malformed, and whether the guests settle in time when
\* adjustments are made at all
TickAddrs(md) ==
  IF Cardinality(DOMAIN md) >= 2 THEN AddrOrders
  ELSE { [ id \in IDS |-> id ] }

TickStale(reps) ==
  IF \E id \in IDS : reps[id].kind = "bad" THEN BOOLEAN ELSE { FALSE }

TickReleased(pause) == IF pause = 0 THEN BOOLEAN ELSE { FALSE }

\* main loop: "Any managed domains due to be processed?".  refresh_xs
\* handles the domain notification that waits in the watch queue, if any.
sched_memory_upto(last_tick) ==
  /\ started
  /\ sched_due
  /\ \E ev \in (IF watchq = {} THEN {-1} ELSE watchq) :
     \E tick \in { sched_tick + 1
                   + (IF resuming_memsched
                      THEN sched_slept(since_sched, config) ELSE 0) } :
     \E w1 \in { IF ev = -1 THEN World
                 ELSE handle_xs_watch_event_w(World, ev, "", config) } :
       /\ tick <= last_tick
       /\ \E reps \in ReportChoices(xen, DOMAIN w1.managed),
             addr \in TickAddrs(w1.managed),
             released \in TickReleased(memsched_pause_level) :
          \E stale_trim \in TickStale(reps) :
          \E t \in { sched_memory_w(World, ev, reps, tick, config,
                                    memsched_pause_level, addr,
                                    stale_trim, released) } :
            /\ ~t.hang
            /\ Commit([ t.w EXCEPT !.resuming = FALSE ])
            /\ host_free' = t.host_free
            /\ xen_free0' = t.xen_free0
            /\ host_lien0' = t.host_lien0
            /\ sched_tick' = tick
            /\ watchq' = watchq \ {ev}
  /\ since_sched' = 0
  /\ reply' = NoReply
  /\ UNCHANGED << config, started, since_pending, memsched_pause_level,
                  freemem_calls, enact >>

sched_memory == sched_memory_upto(sched_tick0 + MaxTick)

\* the same handler, followed over a longer run of ticks
sched_memory_solo == sched_memory_upto(sched_tick0 + MaxSoloTick)

\* pause_memsched and resume_memsched as functions of the level.  The
\* level is a u_int; it is followed up to MaxPause, far from the value
\* where it would wrap.
paused_level(level) == level + 1

\* a variant that decrements without looking at the level
resumed_level_unchecked(level, force) ==
  IF force THEN 0 ELSE level - 1

resumed_level(level, force) ==
  IF force THEN 0
  ELSE IF level # 0 THEN level - 1
  ELSE level

\* SIG_CTRL and rcmd "pause"
pause_memsched ==
  /\ started
  /\ memsched_pause_level < MaxPause
  /\ memsched_pause_level' = paused_level(memsched_pause_level)
  /\ Quiet
  /\ UNCHANGED << doms_pending, doms_managed, doms_unmanaged, doms_qid,
                  config, started, resuming_memsched, since_pending,
                  since_sched, sched_tick, host_free, xen_free0, host_lien0,
                  xen, xs_qids, watchq, freemem_calls, enact >>

\* SIG_CTRL and rcmd "resume" and "resume --force"
resume_memsched ==
  /\ started
  /\ \E force \in BOOLEAN :
       memsched_pause_level' = resumed_level(memsched_pause_level, force)
  /\ Quiet
  /\ UNCHANGED << doms_pending, doms_managed, doms_unmanaged, doms_qid,
                  config, started, resuming_memsched, since_pending,
                  since_sched, sched_tick, host_free, xen_free0, host_lien0,
                  xen, xs_qids, watchq, freemem_calls, enact >>

\* rcmd "freemem": the requests of a toolstack that is about to create a
\* domain
FreememCall(req, above_slack, draw_reserved_hard, must) ==
  [ req |-> req, above_slack |-> above_slack,
    draw_reserved_hard |-> draw_reserved_hard, must |-> must ]

FreememCalls ==
  { FreememCall(1500, TRUE, FALSE, TRUE),
    FreememCall(2048, TRUE, FALSE, TRUE) }

handle_freemem ==
  /\ started
  /\ freemem_calls < MaxFreemem
  /\ freemem_calls' = freemem_calls + 1
  /\ \E ev \in (IF watchq = {} \/ memsched_pause_level = 0 THEN {-1}
                ELSE watchq),
        c \in FreememCalls,
        addr \in TickAddrs(doms_managed),
        released \in (IF memsched_pause_level = 0 THEN { FALSE }
                      ELSE BOOLEAN) :
     \E r \in { sched_freemem(World, memsched_pause_level, config,
                              sched_tick, c.req, c.above_slack,
                              c.draw_reserved_hard, c.must, ev, -1, addr,
                              released) } :
       /\ ~r.hang
       /\ Commit(r.w)
       /\ reply' = [ r.reply EXCEPT !.call = c ]
       /\ watchq' = watchq \ {ev}
  /\ UNCHANGED << config, started, since_pending, since_sched, sched_tick,
                  host_free, xen_free0, host_lien0, memsched_pause_level,
                  enact >>

(***************************************************************************)
(* The host                                                                *)
(***************************************************************************)
DomainCreate ==
  /\ \E id \in RegistryDomU, d \in RegistryDomains :
       /\ ~xen[id].alive
       /\ id \notin watchq
       /\ xen' = [ xen EXCEPT ![id] = d ]
       /\ watchq' = watchq \cup {id}
  /\ Quiet
  /\ UNCHANGED << doms_pending, doms_managed, doms_unmanaged, doms_qid,
                  config, started, resuming_memsched, since_pending,
                  since_sched, sched_vars, xs_qids >>

DomainDestroy ==
  /\ \E id \in DOMU :
       /\ xen[id].alive
       /\ xen' = [ xen EXCEPT ![id] = NoDomain ]
       /\ watchq' = watchq \cup {id}
  /\ Quiet
  /\ UNCHANGED << doms_pending, doms_managed, doms_unmanaged, doms_qid,
                  config, started, resuming_memsched, since_pending,
                  since_sched, sched_vars, xs_qids >>

HostSetMaxmem ==
  /\ \E id \in DOMU, smax \in StaticMax :
       /\ xen[id].alive /\ xen[id].built
       /\ smax # xen[id].static_max
       /\ xen' = [ xen EXCEPT ![id].static_max = smax ]
  /\ Quiet
  /\ UNCHANGED << doms_pending, doms_managed, doms_unmanaged, doms_qid,
                  config, started, resuming_memsched, since_pending,
                  since_sched, sched_vars, xs_qids, watchq >>

\* the guests follow their memory targets
GuestBalloon ==
  /\ guests_settled(xen, DOMU) # xen
  /\ xen' = guests_settled(xen, DOMU)
  /\ Quiet
  /\ UNCHANGED << doms_pending, doms_managed, doms_unmanaged, doms_qid,
                  config, started, resuming_memsched, since_pending,
                  since_sched, sched_vars, xs_qids, watchq >>

\* the administrator balloons Dom0, which leaves more or less memory free
Dom0Sizes == { HostPhysMem.dom0, 2400 }

SqueezeSizes == { HostPhysMem.dom0, 2464, 2800 }

Dom0BalloonTo(sizes) ==
  /\ started
  /\ \E size \in sizes :
       /\ size # xen[0].tot
       /\ size <= xen[0].tot + get_xen_free_memory(xen)
       /\ xen' = [ xen EXCEPT ![0].tot = size, ![0].target = size ]
  /\ Quiet
  /\ UNCHANGED << doms_pending, doms_managed, doms_unmanaged, doms_qid,
                  config, started, resuming_memsched, since_pending,
                  since_sched, sched_vars, xs_qids, watchq >>

Dom0Balloon == Dom0BalloonTo(Dom0Sizes)

\* Dom0 takes nearly all of the free memory of the host
Dom0Squeeze == Dom0BalloonTo(SqueezeSizes)

Next ==
  \/ main_startup
  \/ TimePasses
  \/ process_pending_domains
  \/ handle_xs_watch_event
  \/ rescan_domain
  \/ reload_configuration
  \/ sched_memory
  \/ DomainCreate
  \/ DomainDestroy
  \/ HostSetMaxmem

Spec == Init /\ [][Next]_vars

\* The scheduler is examined on a host with two domains whose guests
\* report, under memory pressure made by Dom0 and with the commands that
\* pause and resume the adjustment and ask for free memory.
SchedHosts ==
  { HostOf(NewDomain(cf_auto, 768, TRUE, "busy"),
           NewDomain(cf_capped, 768, TRUE, "idle")) }

\* The registry after main()'s start-up on host h and the pending passes
\* that follow it a second apart, every domain configuration file being
\* readable and every xenstore transaction committed.
World0(h) ==
  [ pending |-> EmptyMap, managed |-> EmptyMap, unmanaged |-> {},
    qid |-> EmptyQid, xsq |-> {}, resuming |-> FALSE, xen |-> h,
    trail |-> {}, orders |-> << >> ]

RECURSIVE pending_passes(_, _, _)
pending_passes(w, cfg, n) ==
  IF n = 0 \/ DOMAIN w.pending = {} THEN w
  ELSE
    Let1(process_pending_domains_w(
           [ w EXCEPT !.pending =
               [ id \in DOMAIN w.pending |->
                   [ w.pending[id] EXCEPT
                       !.since_noticed = elapse(@, MaxAge) ] ] ],
           cfg, "ok", TRUE),
         LAMBDA w1 : pending_passes(w1, cfg, n - 1))

daemon_started(h, cfg) ==
  pending_passes(
    process_pending_domains_w(enumerate_local_domains_as_pending(World0(h)),
                              cfg, "ok", TRUE),
    cfg, MaxAge)

\* a domain that has not reported for more than trim_unresponsive seconds
\* (one tick of two seconds) is trimmed
sched_config == [ default_config EXCEPT !.trim_unresponsive = 2 ]

SchedInitOn(hosts) ==
  /\ config = sched_config
  /\ \E w \in { daemon_started(h, sched_config) : h \in hosts } :
       /\ doms_pending = w.pending
       /\ doms_managed = w.managed
       /\ doms_unmanaged = w.unmanaged
       /\ doms_qid = w.qid
       /\ xs_qids = w.xsq
       /\ resuming_memsched = w.resuming
       /\ xen = w.xen
  /\ watchq = {}
  /\ trail = {}
  /\ orders = << >>
  /\ reply = NoReply
  /\ started = TRUE
  /\ since_pending = 0
  /\ since_sched = 0
  /\ sched_tick = sched_tick0
  /\ host_free = 0
  /\ xen_free0 = 0
  /\ host_lien0 = 0
  /\ memsched_pause_level = 0
  /\ freemem_calls = 0
  /\ enact = NoEnact

SchedNext ==
  \/ TimePasses
  \/ sched_memory
  \/ pause_memsched
  \/ resume_memsched
  \/ handle_freemem
  \/ GuestBalloon
  \/ Dom0Balloon

SchedInit == SchedInitOn(SchedHosts)

SchedSpec == SchedInit /\ [][SchedNext]_vars

\* The limits dmem_min and dmem_max are examined on a host where the
\* administrator has set the first domain's memory below its dmem_min
\* after the domain was created, and the second domain was created larger
\* than its dmem_max.
Undersized(d, size) ==
  [ d EXCEPT !.target = size, !.tot = size + HostPhysMem.xen_data ]

LimitHosts ==
  { HostOf(Undersized(NewDomain(cf_auto, 768, TRUE, "busy"), 448),
           NewDomain(cf_capped, 768, TRUE, "idle")) }

LimitInit == SchedInitOn(LimitHosts)

LimitSpec == LimitInit /\ [][SchedNext]_vars

\* The stages of a tick are also examined on a host with two domains whose
\* guests both page, one of them created below its quota, when Dom0 leaves
\* little free memory or less than the domains can give back.
PressHosts ==
  { HostOf(NewDomain(cf_small, 768, TRUE, "busy"),
           NewDomain(cf_auto, 768, TRUE, "busy")) }

PressInit == SchedInitOn(PressHosts)

PressNext ==
  \/ TimePasses
  \/ sched_memory
  \/ GuestBalloon
  \/ Dom0Squeeze

PressSpec == PressInit /\ [][PressNext]_vars

\* The expansion loop of do_resize_domains is followed pass by pass on
\* the same host: the daemon sleeps between two passes, and meanwhile the
\* guests that were told to shrink release their memory, in part or in
\* full, or do not.
MaxEnactTick == 2

\* the time in ms by which a sleep and the pass after it overrun
SleepLate == { 0, 100 }

sched_memory_to_expansion ==
  /\ started
  /\ sched_due
  /\ ~enact.on
  /\ memsched_pause_level = 0
  /\ \E ev \in (IF watchq = {} THEN {-1} ELSE watchq) :
     \E tick \in { sched_tick + 1
                   + (IF resuming_memsched
                      THEN sched_slept(since_sched, config) ELSE 0) } :
     \E w1 \in { IF ev = -1 THEN World
                 ELSE handle_xs_watch_event_w(World, ev, "", config) } :
       /\ tick <= sched_tick0 + MaxEnactTick
       /\ \E reps \in ReportChoices(xen, DOMAIN w1.managed),
             addr \in TickAddrs(w1.managed) :
          \E stale_trim \in TickStale(reps) :
          \E r \in { sched_memory_shrunk_w(World, ev, reps, tick, config,
                                           addr, stale_trim) } :
            /\ ~r.t.hang
            /\ Commit([ r.t.w EXCEPT !.resuming = FALSE ])
            /\ host_free' = r.t.host_free
            /\ xen_free0' = r.t.xen_free0
            /\ host_lien0' = r.t.host_lien0
            /\ sched_tick' = tick
            /\ watchq' = watchq \ {ev}
            /\ enact' = enact_start(r.vec_up, r.down, tick)
  /\ since_sched' = 0
  /\ reply' = NoReply
  /\ UNCHANGED << config, started, since_pending, memsched_pause_level,
                  freemem_calls >>

\* one pass of the expansion loop, up to its sleep or to the end of the loop
do_resize_domains_pass ==
  /\ enact.on
  /\ \E late \in SleepLate :
     \E r \in { expand_pass(World, enact,
                             [ xen_free0 |-> xen_free0,
                               host_lien0 |-> host_lien0 ],
                             config, late) } :
       /\ Commit(r.w)
       /\ enact' = r.e
  /\ reply' = NoReply
  /\ UNCHANGED << config, started, since_pending, since_sched, sched_tick,
                  host_free, xen_free0, host_lien0, memsched_pause_level,
                  freemem_calls, watchq >>

\* a guest that was told to shrink has released half of what it still has
\* to release
guest_deflated(h, id) ==
  LET want == h[id].target + h[id].videoram + HostPhysMem.xen_data
  IN  [ h EXCEPT ![id].tot =
          IF h[id].alive /\ @ > want
          THEN @ - roundup((@ - want) \div 2, pagesize_kbs) ELSE @ ]

GuestDeflates ==
  /\ \E id \in DOMU :
       /\ guest_deflated(xen, id) # xen
       /\ xen' = guest_deflated(xen, id)
  /\ Quiet
  /\ UNCHANGED << doms_pending, doms_managed, doms_unmanaged, doms_qid,
                  config, started, resuming_memsched, since_pending,
                  since_sched, sched_vars, xs_qids, watchq >>

\* the main loop does nothing else while sched_memory runs
MainLoopIdle == ~enact.on

EnactInit == SchedInitOn(PressHosts)

EnactNext ==
  \/ MainLoopIdle /\ TimePasses
  \/ sched_memory_to_expansion
  \/ do_resize_domains_pass
  \/ GuestBalloon
  \/ GuestDeflates
  \/ Dom0Squeeze

\* The loop runs on: its sleep is over after a while and the next pass
\* is made, whatever the guests do.
PassMade ==
  /\ enact.on
  /\ \E late \in SleepLate :
       enact' = expand_pass(World, enact,
                            [ xen_free0 |-> xen_free0,
                              host_lien0 |-> host_lien0 ],
                            config, late).e

EnactSpec ==
  /\ EnactInit
  /\ [][EnactNext]_vars
  /\ WF_enact(PassMade)

\* What becomes of a domain two ticks after it was expanded is examined on
\* the same host over one tick more, Dom0 being ballooned up and down.
MaxJitterTick == 4

sched_memory_jitter == sched_memory_upto(sched_tick0 + MaxJitterTick)

JitterNext ==
  \/ TimePasses
  \/ sched_memory_jitter
  \/ GuestBalloon
  \/ Dom0Balloon

JitterSpec == PressInit /\ [][JitterNext]_vars

\* The pause of the adjustment is also examined on a host where the guest
\* of the first domain, a domain created above its quota, writes malformed
\* reports.
PauseHosts ==
  { HostOf(NewDomain(cf_capped, 768, TRUE, "bad"),
           NewDomain(cf_auto, 768, TRUE, "idle")) }

PauseInit == SchedInitOn(PauseHosts)

PauseSpec == PauseInit /\ [][SchedNext]_vars

\* The rates, the growth of a domain and the trimming of a silent domain
\* are followed over a longer run of ticks on a host with ample free
\* memory and one domain: either a domain created below its quota, or a
\* domain created above its quota that sets its own guest_free_threshold.
SoloHosts ==
  { HostOf(NewDomain(cf_small, 768, TRUE, "solo"), NoDomain),
    HostOf(NewDomain(cf_picky, 768, TRUE, "solo"), NoDomain) }

SoloInit == SchedInitOn(SoloHosts)

SoloNext ==
  \/ TimePasses
  \/ sched_memory_solo
  \/ GuestBalloon

SoloSpec == SoloInit /\ [][SoloNext]_vars

\* Liveness is examined on a host whose domain never becomes managed, so
\* that only the pending pass is ever due, under the handlers of the
\* registry.  The main loop never stops: poll() returns at the latest when
\* the next processing point is reached, and a due pending pass is then
\* run.
LiveDomains ==
  { NewDomain(cf_auto, 768, FALSE, "none"),
    NewDomain(cf_none, 768, TRUE, "none") }

LiveHosts == { HostOf(d, NoDomain) : d \in LiveDomains }

LiveInit ==
  /\ InitCommon
  /\ config \in ConfFiles
  /\ xen \in LiveHosts

LiveNext ==
  \/ main_startup
  \/ TimePasses
  \/ process_pending_domains
  \/ handle_xs_watch_event
  \/ rescan_domain
  \/ reload_configuration
  \/ DomainDestroy
  \/ HostSetMaxmem

PassStep == started /\ pending_due /\ since_pending' = 0

LiveSpec ==
  /\ LiveInit
  /\ [][LiveNext]_vars
  /\ WF_vars(TimePasses)
  /\ WF_since_pending(PassStep)

\* The pace of the pending passes and the sampling of xen_data_size are
\* examined under a configuration that lets a domain stay pending for 40
\* seconds, on a host whose only guest is still being built when the
\* daemon starts, and on a host whose only guest has been told to shrink
\* to 576 and has not done so yet.
backoff_config == [ default_config EXCEPT !.domain_pending_timeout = 40 ]

Deflating(d, size) == [ d EXCEPT !.target = size ]

BackoffHosts ==
  { HostOf(NewDomain(cf_auto, 768, FALSE, "none"), NoDomain),
    HostOf(Deflating(NewDomain(cf_auto, 768, TRUE, "none"), 576), NoDomain) }

BackoffInit ==
  /\ InitCommon
  /\ config = backoff_config
  /\ xen \in BackoffHosts

\* the toolstack completes the construction of a domain and publishes its
\* keys
DomainBuilt ==
  /\ \E id \in DOMU :
       /\ xen[id].alive /\ ~xen[id].built
       /\ xen' = [ xen EXCEPT ![id].built = TRUE ]
  /\ Quiet
  /\ UNCHANGED << doms_pending, doms_managed, doms_unmanaged, doms_qid,
                  config, started, resuming_memsched, since_pending,
                  since_sched, sched_vars, xs_qids, watchq >>

BackoffNext ==
  \/ main_startup
  \/ TimePasses
  \/ process_pending_domains
  \/ DomainBuilt
  \/ GuestBalloon

BackoffSpec == BackoffInit /\ [][BackoffNext]_vars

\* The management of domain 0 is examined on a host where domain 0 is the
\* only domain and carries membalance settings of its own, so that it is
\* manageable whenever the dom0 option allows it.
cf_dom0 == DomainConfig("auto", 1024, 512, 768, 1024)

Dom0Hosts == { [ HostOf(NoDomain, NoDomain) EXCEPT ![0].cf = cf_dom0 ] }

Dom0Init ==
  /\ InitCommon
  /\ config \in ConfFiles
  /\ xen \in Dom0Hosts

Dom0Next ==
  \/ main_startup
  \/ TimePasses
  \/ process_pending_domains
  \/ handle_xs_watch_event
  \/ rescan_domain
  \/ reload_configuration

Dom0Spec == Dom0Init /\ [][Dom0Next]_vars

(***************************************************************************)
(* Properties                                                              *)
(***************************************************************************)
\* C1: every domain id known to the daemon is in exactly one of the maps
\* Pending, Managed, Unmanaged, never in two at once.
C1_ExactlyOneMap ==
  \A id \in IDS :
    /\ ~(contains(doms_pending, id) /\ contains(doms_managed, id))
    /\ ~(contains(doms_pending, id) /\ id \in doms_unmanaged)
    /\ ~(contains(doms_managed, id) /\ id \in doms_unmanaged)

\* a domain that went Pending -> Managed -> Unmanaged (it keeps its qid)
\* while Dom0 is pending
C1_Witness ==
  /\ 1 \in doms_unmanaged
  /\ contains(doms_qid, 1)
  /\ contains(doms_pending, 0)

\* C7: between handlers (hence whenever a tick or a report drain runs)
\* every Managed domain has a non-empty qid, recorded in the qid map, and
\* its report slot exists in xenstore; a domain whose slot could not be
\* created is not left Managed.
C7_ManagedHasReportSlot ==
  \A id \in DOMAIN doms_managed :
    /\ doms_managed[id].qid # 0
    /\ contains(doms_qid, id)
    /\ doms_qid[id] = doms_managed[id].qid
    /\ doms_managed[id].qid \in xs_qids

C7_Witness ==
  /\ contains(doms_managed, 1)
  /\ << 1, "Pending", "Managed" >> \in trail

\* C9: every move of a domain between the maps made by any handler is one
\* of unknown->Pending, Pending->Managed, Pending->Unmanaged,
\* Managed->Unmanaged, Unmanaged->Pending, or any state->unknown (dead).
AllowedEdges ==
  { << "unknown", "Pending" >>, << "Pending", "Managed" >>,
    << "Pending", "Unmanaged" >>, << "Managed", "Unmanaged" >>,
    << "Unmanaged", "Pending" >>, << "Pending", "unknown" >>,
    << "Managed", "unknown" >>, << "Unmanaged", "unknown" >> }

C9_OnlyListedEdges ==
  \A e \in trail : << e[2], e[3] >> \in AllowedEdges

\* one pending pass that made a domain Managed and, its report slot not
\* being created, Unmanaged
C9_Witness ==
  /\ << 1, "Pending", "Managed" >> \in trail
  /\ << 1, "Managed", "Unmanaged" >> \in trail

\* C10: every Managed domain has resolved settings with, when AUTO mode
\* is allowed, rate_low < rate_high and dmem_min <= dmem_quota <= dmem_max,
\* and in every case dmem_max not above the maximum published by the host
\* (xs_mem_max, the static-max the daemon has read); this holds across
\* configuration reloads and changes of the published size fields.
C10_ManagedSettingsResolved ==
  \A id \in DOMAIN doms_managed :
    LET dom == doms_managed[id]
    IN  /\ dom.ctrl_modes_allowed # 0
        /\ (dom.ctrl_modes_allowed % 2 = 1) =>
              /\ dom.rate_low < dom.rate_high
              /\ dom.dmem_min <= dom.dmem_quota
              /\ dom.dmem_quota <= dom.dmem_max
        /\ dom.dmem_max <= dom.xs_mem_max
        /\ dom.dmem_max >= 0

\* a domain managed after the host raised its static-max and after a
\* configuration reload
C10_Witness ==
  /\ contains(doms_managed, 1)
  /\ doms_managed[1].xs_mem_max = 1024
  /\ doms_managed[1].dmem_max = 1024
  /\ config.seq > 1

\* C8: no domain stays Pending for ever, and a pending pass that finds a
\* domain that has been Pending for more than domain_pending_timeout
\* seconds does not leave it Pending: when its data is still missing (the
\* host has not finished building it) the domain becomes Unmanaged.
C8_PassEndsOverdue ==
  [][ process_pending_domains =>
        \A id \in DOMAIN doms_pending :
          doms_pending[id].since_noticed > config.domain_pending_timeout =>
            /\ ~contains(doms_pending', id)
            /\ (xen[id].alive /\ ~xen[id].built) => id \in doms_unmanaged'
    ]_vars

C8_NoPendingForever ==
  /\ C8_PassEndsOverdue
  /\ \A id \in RegistryIds :
       contains(doms_pending, id) ~> ~contains(doms_pending, id)

\* Dom0 (never complete: it has no vm uuid) timed out of Pending
C8_Witness ==
  /\ 0 \in doms_unmanaged
  /\ config.dom0_mode # 0
  /\ trail = { << 0, "Pending", "Unmanaged" >> }

\* the steps of the scheduler and of the free-memory command
TickStep == sched_tick' # sched_tick
FreememStep == reply'.status # "none"
AfterTick == sched_tick > sched_tick0 /\ since_sched = 0

OrderKinds == { orders[k].kind : k \in DOMAIN orders }

RECURSIVE SumPlanned(_, _)
SumPlanned(md, ids) ==
  IF ids = {} THEN 0
  ELSE LET id == lowest(ids)
       IN  md[id].memsize - md[id].memsize0 + SumPlanned(md, ids \ {id})

\* host free memory less slack
FreeLessSlack(h) == get_xen_free_memory(h) - get_xen_free_slack

\* C2 as stated: when a tick is over every Managed domain has
\* memsize <= dmem_max, and memsize >= dmem_min unless host_free is at or
\* below host_reserved_hard.
C2_AsStated ==
  [][ TickStep =>
        \A id \in DOMAIN doms_managed' :
          /\ doms_managed'[id].memsize <= doms_managed'[id].dmem_max
          /\ host_free' > config.host_reserved_hard =>
               doms_managed'[id].memsize >= doms_managed'[id].dmem_min
    ]_vars

\* C2: when a tick that adjusts the domains is over, every runnable
\* Managed domain has memsize at or below the larger of dmem_max and the
\* size memsize0 it was found with, and at or above dmem_min unless
\* host_free is at or below host_reserved_hard.
C2_SizeWithinLimits ==
  [][ (TickStep /\ memsched_pause_level = 0) =>
        \A id \in DOMAIN doms_managed' :
          doms_managed'[id].runnable =>
            /\ doms_managed'[id].memsize
                 <= max(doms_managed'[id].dmem_max,
                        doms_managed'[id].memsize0)
            /\ host_free' > config.host_reserved_hard =>
                 doms_managed'[id].memsize >= doms_managed'[id].dmem_min
    ]_vars

\* after a tick that brought a domain found below its dmem_min up to it,
\* while the other domain, found above its dmem_max, stays above it
C2_Witness ==
  /\ AfterTick
  /\ memsched_pause_level = 0
  /\ host_free > config.host_reserved_hard
  /\ \E id \in DOMAIN doms_managed :
       /\ doms_managed[id].runnable
       /\ doms_managed[id].memsize0 < doms_managed[id].dmem_min
       /\ doms_managed[id].memsize = doms_managed[id].dmem_min
  /\ \E id \in DOMAIN doms_managed :
       /\ doms_managed[id].runnable
       /\ doms_managed[id].memsize > doms_managed[id].dmem_max

C4_MemoryConserved ==
  [][ TickStep =>
        SumPlanned(doms_managed', DOMAIN doms_managed')
          + host_free' - (xen_free0' - get_xen_free_slack - host_lien0') = 0
    ]_vars

\* a tick that took memory from one domain and gave memory to another
C4_Witness ==
  /\ AfterTick
  /\ \E id \in DOMAIN doms_managed :
       doms_managed[id].memsize > doms_managed[id].memsize0
  /\ \E id \in DOMAIN doms_managed :
       doms_managed[id].memsize < doms_managed[id].memsize0
  /\ host_free # xen_free0 - get_xen_free_slack - host_lien0

decr_floor(dom) ==
  min(dom.dmem_max,
      roundup(scale(dom.memsize0, FracDenom - dom.dmem_decr), memquant_kbs))

C6_ExpandedNotShrunkNextTick ==
  [][ TickStep =>
        \A id \in DOMAIN doms_managed' :
          ( /\ id \in DOMAIN doms_managed
            /\ doms_managed[id].last_expand_tick = sched_tick' - 1
          ) =>
            doms_managed'[id].memsize >= doms_managed'[id].memsize_hard
    ]_vars

\* a tick under soft pressure leaves alone the domain expanded at the tick
\* before, although its rate has fallen below rate_high and it is above
\* its quota
C6_Witness ==
  /\ AfterTick
  /\ xen_free0 - get_xen_free_slack - host_lien0 < config.host_reserved_soft
  /\ \E id \in DOMAIN doms_managed :
       /\ doms_managed[id].last_expand_tick = sched_tick - 1
       /\ doms_managed[id].runnable
       /\ doms_managed[id].valid_data
       /\ doms_managed[id].time_rate_below_high # 0
       /\ doms_managed[id].memsize0 > doms_managed[id].dmem_quota
       /\ doms_managed[id].memsize >= doms_managed[id].memsize0

\* C11 as stated: when a tick is over, every Managed domain with
\* valid_memory_data has memsize0 >= 0 and memsize0 + xen_data_size equal
\* to the allocation (pagesize * tot_pages) the tick read from the host.
C11_AsStated ==
  [][ TickStep =>
        \A id \in DOMAIN doms_managed' :
          doms_managed'[id].valid_memory_data =>
            /\ doms_managed'[id].memsize0 >= 0
            /\ doms_managed'[id].memsize0 + doms_managed'[id].xen_data_size
                 = xen[id].tot
    ]_vars

\* C11: when a tick is over, every Managed domain with valid_memory_data
\* that the tick did not trim to its quota and whose xen_data_size the tick
\* did not re-evaluate has memsize0 >= 0 and memsize0 + xen_data_size equal
\* to the allocation the tick read from the host.
C11_ValidMemoryData ==
  [][ TickStep =>
        \A id \in DOMAIN doms_managed' :
          ( /\ doms_managed'[id].valid_memory_data
            /\ ~doms_managed'[id].trimming_to_quota
            /\ id \in DOMAIN doms_managed
            /\ doms_managed'[id].xen_data_size = doms_managed[id].xen_data_size
          ) =>
            /\ doms_managed'[id].memsize0 >= 0
            /\ doms_managed'[id].memsize0 + doms_managed'[id].xen_data_size
                 = xen[id].tot
    ]_vars

\* after a tick that planned a change for a domain it has sized
C11_Witness ==
  /\ AfterTick
  /\ \E id \in DOMAIN doms_managed :
       /\ doms_managed[id].valid_memory_data
       /\ ~doms_managed[id].trimming_to_quota
       /\ doms_managed[id].memsize0 + doms_managed[id].xen_data_size
            = xen[id].tot
       /\ doms_managed[id].memsize # doms_managed[id].memsize0

\* C12: a tick that reads the report of a Managed domain whose guest
\* writes malformed reports moves the domain from Managed to Unmanaged.
C12_BadReportUnmanages ==
  [][ TickStep =>
        \A id \in DOMAIN doms_managed :
          (xen[id].alive /\ xen[id].probe = "bad" /\ id \notin watchq) =>
            /\ ~contains(doms_managed', id)
            /\ id \in doms_unmanaged'
            /\ << id, "Managed", "Unmanaged" >> \in trail'
    ]_vars

\* the tick has unmanaged the domain; the configuration was never reloaded
C12_Witness ==
  /\ AfterTick
  /\ xen[1].alive /\ xen[1].probe = "bad"
  /\ trail = { << 1, "Managed", "Unmanaged" >> }
  /\ 1 \in doms_unmanaged
  /\ config = default_config

\* C13: a tick that runs while the pause level is not 0 issues no expand,
\* shrink or regoal order and leaves every Managed domain's planned size
\* at its current size and its last expansion tick as it was.
C13_PausedTickOnlyCollects ==
  [][ (TickStep /\ memsched_pause_level # 0) =>
        /\ \A k \in DOMAIN orders' : orders'[k].kind = "trim"
        /\ \A id \in DOMAIN doms_managed' :
             /\ doms_managed'[id].memsize = doms_managed'[id].memsize0
             /\ id \in DOMAIN doms_managed =>
                  doms_managed'[id].last_expand_tick
                    = doms_managed[id].last_expand_tick
             /\ xen'[id].target = xen[id].target
    ]_vars

\* a paused tick on a host whose free memory is below the hard reserve,
\* with a domain that could be shrunk
C13_Witness ==
  /\ AfterTick
  /\ memsched_pause_level # 0
  /\ host_free < config.host_reserved_hard
  /\ \E id \in DOMAIN doms_managed :
       /\ doms_managed[id].runnable
       /\ doms_managed[id].valid_memory_data
       /\ doms_managed[id].memsize0 > doms_managed[id].dmem_min
       /\ doms_managed[id].memsize = doms_managed[id].memsize0

\* C14: among the orders of one tick no shrink order comes after an expand
\* order.
C14_ShrinksBeforeExpands ==
  \A i \in DOMAIN orders : \A j \in DOMAIN orders :
    (i < j) => ~(orders[i].kind = "+" /\ orders[j].kind = "-")

\* a tick that issued a shrink order and then an expand order
C14_Witness ==
  /\ AfterTick
  /\ \E i \in DOMAIN orders : \E j \in DOMAIN orders :
       i < j /\ orders[i].kind = "-" /\ orders[j].kind = "+"

\* C15: at pause level 0 a free-memory request is answered with status P,
\* no order is issued, and no domain record and no memory target changes.
C15_UnpausedFreememRefused ==
  [][ (FreememStep /\ memsched_pause_level = 0) =>
        /\ reply'.status = "P"
        /\ orders' = << >>
        /\ doms_managed' = doms_managed
        /\ xen' = xen
    ]_vars

\* a refused request on a host where domains could have been shrunk
C15_Witness ==
  /\ reply.status = "P"
  /\ memsched_pause_level = 0
  /\ \E id \in DOMAIN doms_managed :
       doms_managed[id].memsize0 > doms_managed[id].dmem_min

\* what a paused free-memory command finds attainable: free memory plus
\* what the Managed domains hold above dmem_min, less the slack and the
\* hard reserve that the call asks to keep
freemem_sizes == collect_domain_memory_info(World, -1, sched_tick, config)

max_avail_of(above_slack, draw_reserved_hard) ==
  LET md == freemem_sizes.managed
  IN  calc_avail(get_xen_free_memory(xen) + freeable_memory(md, DOMAIN md),
                 eval_memory_lien(md, DOMAIN md), above_slack,
                 draw_reserved_hard, config)

\* C16: a paused free-memory request with must set that asks for more than
\* max_avail is answered N with the max_avail figures, and it issues no
\* order, changes no memory target, plans no shrink and records no
\* preshrink.
C16_UnattainableMustRefused ==
  [][ ( /\ FreememStep
        /\ memsched_pause_level # 0
        /\ watchq = {}
        /\ reply'.call.must
        /\ roundup(reply'.call.req, memquant_kbs)
             > max_avail_of(reply'.call.above_slack,
                            reply'.call.draw_reserved_hard)
      ) =>
        /\ reply'.status = "N"
        /\ reply'.freemem_with_slack
             = max_avail_of(FALSE, reply'.call.draw_reserved_hard)
        /\ reply'.freemem_less_slack
             = max_avail_of(TRUE, reply'.call.draw_reserved_hard)
        /\ orders' = << >>
        /\ xen' = xen
        /\ DOMAIN doms_managed' = DOMAIN doms_managed
        /\ \A id \in DOMAIN doms_managed' :
             /\ doms_managed'[id].memsize = doms_managed'[id].memsize0
             /\ doms_managed'[id].preshrink = doms_managed[id].preshrink
    ]_vars

\* a refused request on a host where domains could have been shrunk
C16_Witness ==
  /\ reply.status = "N"
  /\ reply.call.must
  /\ orders = << >>
  /\ \E id \in DOMAIN doms_managed :
       /\ doms_managed[id].runnable
       /\ doms_managed[id].memsize0 > doms_managed[id].dmem_min

\* C17: a paused free-memory request for no more than max_avail is
\* answered A, and when the guests have followed the shrink orders by the
\* time the command reads the free memory, the figure the call asked for
\* (less slack when above_slack, with slack otherwise) is at least the
\* requested amount.
C17_AttainableGranted ==
  [][ ( /\ FreememStep
        /\ memsched_pause_level # 0
        /\ watchq = {}
        /\ reply'.call.req > 0
        /\ roundup(reply'.call.req, memquant_kbs)
             <= max_avail_of(reply'.call.above_slack,
                             reply'.call.draw_reserved_hard)
      ) =>
        /\ reply'.status = "A"
        /\ (guests_settled(xen', DOMU) = xen') =>
             (IF reply'.call.above_slack THEN reply'.freemem_less_slack
              ELSE reply'.freemem_with_slack) >= reply'.call.req
    ]_vars

\* a granted request that made the command shrink a domain
C17_Witness ==
  /\ reply.status = "A"
  /\ reply.call.req > 0
  /\ "-" \in OrderKinds
  /\ guests_settled(xen, DOMU) = xen
  /\ reply.freemem_less_slack >= reply.call.req

\* C18: the pause level is never negative; a pause request adds 1 to it; a
\* resume request leaves 0 at 0 and otherwise subtracts 1, or sets the
\* level to 0 when forced.
C18_SaturatingCounter ==
  [][ /\ memsched_pause_level' >= 0
      /\ pause_memsched => memsched_pause_level' = memsched_pause_level + 1
      /\ resume_memsched =>
           \/ memsched_pause_level' = 0
           \/ /\ memsched_pause_level > 0
              /\ memsched_pause_level' = memsched_pause_level - 1
    ]_vars

\* two pause requests on top of each other, after a tick
C18_Witness ==
  /\ memsched_pause_level = 2
  /\ sched_tick > sched_tick0

\* C19: the size named by every order (shrink, expand, regoal, trim to
\* quota, free-memory shrink) is a multiple of the allocation quantum.
C19_TargetsAreQuantumMultiples ==
  \A k \in DOMAIN orders : orders[k].size % memquant_kbs = 0

\* an expansion by a fraction of the domain size that is rounded up
C19_Witness ==
  \E k \in DOMAIN orders :
    /\ orders[k].kind = "+"
    /\ orders[k].size > orders[k].curr
    /\ ((orders[k].curr * (FracDenom + sched_config.dmem_incr))
           % (FracDenom * memquant_kbs)) # 0

\* C20: an expand order names a size that is not below the domain's
\* current allocation and a shrink order one that is not above it.
C20_OrdersMatchIntent ==
  \A k \in DOMAIN orders :
    /\ orders[k].kind = "+" => orders[k].size >= orders[k].curr
    /\ orders[k].kind = "-" => orders[k].size <= orders[k].curr

\* a tick that shrinks one domain and expands another
C20_Witness ==
  /\ \E k \in DOMAIN orders :
       orders[k].kind = "+" /\ orders[k].size > orders[k].curr
  /\ \E k \in DOMAIN orders :
       orders[k].kind = "-" /\ orders[k].size < orders[k].curr

\* the largest rate in a history of rate records
PeakRate(hist) ==
  IF hist = << >> THEN 0
  ELSE CHOOSE r \in { hist[k].rate : k \in DOMAIN hist } :
         \A k \in DOMAIN hist : hist[k].rate <= r

\* the tick has taken a report of no paging and no memory in use from id
IdleReportStep(id) ==
  /\ TickStep
  /\ id \in DOMAIN doms_managed
  /\ id \in DOMAIN doms_managed'
  /\ doms_managed'[id].last_report_tick = sched_tick'
  /\ doms_managed'[id].freepct = 100
  /\ doms_managed'[id].rate = 0

\* C21 as stated: after a report with kbsec = 0 and freepct = 100 the
\* domain's fast_rate and slow_rate are both 0, whatever its history.
C21_AsStated ==
  [][ \A id \in DOMAIN doms_managed' :
        IdleReportStep(id) =>
          /\ doms_managed'[id].fast_rate = 0
          /\ doms_managed'[id].slow_rate = 0
    ]_vars

\* C21: after a report with kbsec = 0 and freepct = 100 the domain's
\* fast_rate is 0; its slow_rate is 0 when its history holds no rate above
\* 0, and is otherwise an average that stays at or below half of the
\* largest rate in the history.
C21_IdleReportRates ==
  [][ \A id \in DOMAIN doms_managed' :
        IdleReportStep(id) =>
          /\ doms_managed'[id].fast_rate = 0
          /\ 2 * doms_managed'[id].slow_rate
                <= PeakRate(doms_managed[id].rate_history)
    ]_vars

\* a report of no paging that follows reports of heavy paging
C21_Witness ==
  /\ AfterTick
  /\ \E id \in DOMAIN doms_managed :
       /\ doms_managed[id].last_report_tick = sched_tick
       /\ doms_managed[id].freepct = 100
       /\ doms_managed[id].fast_rate = 0
       /\ doms_managed[id].slow_rate > 0
       /\ Len(doms_managed[id].rate_history) > 2

\* the history of a domain holds the rate r for five ticks in a row, the
\* latest of them being the tick last
FiveTickRun(hist, last, r) ==
  /\ Len(hist) = Len(slow_weights)
  /\ \A k \in DOMAIN hist :
       hist[k].tick = last - (k - 1) /\ hist[k].rate = r

\* C22: a domain whose reports have yielded the same rate R at five ticks
\* in a row has slow_rate = R.
C22_SteadyRateIsSlowRate ==
  \A id \in DOMAIN doms_managed :
    \A r \in Rates :
      FiveTickRun(doms_managed[id].rate_history,
                  doms_managed[id].last_report_tick, r)
        => doms_managed[id].slow_rate = r

\* five ticks in a row with a rate in the mid band
C22_Witness ==
  \E id \in DOMAIN doms_managed :
    /\ FiveTickRun(doms_managed[id].rate_history, sched_tick, 100)
    /\ doms_managed[id].slow_rate = 100

\* the tick has taken a report with a rate in the mid band from the only
\* Managed domain, which it found at or above dmem_min and at or below
\* its quota, on a host with free memory above the soft reserve
MidBandStep(id) ==
  /\ TickStep
  /\ DOMAIN doms_managed' = { id }
  /\ doms_managed'[id].last_report_tick = sched_tick'
  /\ doms_managed'[id].valid_data
  /\ doms_managed'[id].fast_rate > doms_managed'[id].rate_low
  /\ doms_managed'[id].fast_rate < doms_managed'[id].rate_high
  /\ doms_managed'[id].memsize0 >= doms_managed'[id].dmem_min
  /\ doms_managed'[id].memsize0 <= doms_managed'[id].dmem_quota
  /\ doms_managed'[id].dmem_quota < doms_managed'[id].dmem_max
  /\ host_free' > config.host_reserved_soft

TrimOrders(ords, id) ==
  { k \in DOMAIN ords : ords[k].id = id /\ ords[k].kind = "trim" }

\* the tick has found no report from the runnable Managed domain id
SilentStep(id) ==
  /\ TickStep
  /\ id \in DOMAIN doms_managed
  /\ id \in DOMAIN doms_managed'
  /\ doms_managed'[id].runnable
  /\ doms_managed'[id].trim_unresponsive > 0
  /\ doms_managed'[id].no_report_time
       = doms_managed[id].no_report_time + config.interval

\* C24: a runnable Managed domain that sits above its quota and stays
\* silent is ordered to shrink to its quota exactly once, at the first tick
\* that finds its silence longer than trim_unresponsive; the silent ticks
\* after that one issue no such order, and no silent tick advances its
\* time_rate_below_low or time_rate_below_high.
C24_SilentDomainTrimmedOnce ==
  [][ \A id \in DOMAIN doms_managed' :
        SilentStep(id) =>
          /\ doms_managed'[id].time_rate_below_low
               = doms_managed[id].time_rate_below_low
          /\ doms_managed'[id].time_rate_below_high
               = doms_managed[id].time_rate_below_high
          /\ ( /\ doms_managed[id].no_report_time
                    <= doms_managed[id].trim_unresponsive
               /\ doms_managed'[id].no_report_time
                    > doms_managed[id].trim_unresponsive
               /\ xen[id].target + xen[id].videoram
                    > doms_managed[id].dmem_quota
             ) =>
               /\ Cardinality(TrimOrders(orders', id)) = 1
               /\ \A k \in TrimOrders(orders', id) :
                    orders'[k].size = doms_managed[id].dmem_quota
               /\ xen'[id].target + xen'[id].videoram
                    = doms_managed[id].dmem_quota
          /\ doms_managed[id].no_report_time
               > doms_managed[id].trim_unresponsive
               => TrimOrders(orders', id) = {}
    ]_vars

\* a silent tick after the one that ordered the domain down to its quota,
\* the guest not having given the memory up yet
C24_Witness ==
  /\ AfterTick
  /\ \E id \in DOMAIN doms_managed :
       /\ doms_managed[id].runnable
       /\ doms_managed[id].no_report_time
            > doms_managed[id].trim_unresponsive + config.interval
       /\ xen[id].target + xen[id].videoram = doms_managed[id].dmem_quota
       /\ xen[id].tot - doms_managed[id].xen_data_size
            > doms_managed[id].dmem_quota
       /\ TrimOrders(orders, id) = {}
       /\ doms_managed[id].time_rate_below_high > 0

\* C27: when the tick takes a report whose freepct exceeds the domain's
\* resolved guest_free_threshold (held here in percent: the domain's own
\* value when it defines one, else the global one), the rate it uses for
\* the domain is 0.
C27_RateZeroAboveOwnThreshold ==
  [][ TickStep =>
        \A id \in DOMAIN doms_managed' :
          ( /\ doms_managed'[id].last_report_tick = sched_tick'
            /\ doms_managed'[id].freepct
                 > doms_managed'[id].guest_free_threshold
          ) =>
            /\ doms_managed'[id].rate = 0
            /\ doms_managed'[id].fast_rate = 0
    ]_vars

\* C25: while the dom0 option is off, domain 0 is not in the Managed map;
\* between the handlers it is not in the Pending map either, so that no
\* pending pass can promote it.
C25_Dom0NotManagedByDefault ==
  config.dom0_mode = 0 =>
    /\ ~contains(doms_managed, 0)
    /\ started => ~contains(doms_pending, 0)

\* a reload that turns the option off while domain 0 is on its way to
\* being managed
C25_Witness ==
  /\ config.dom0_mode = 0
  /\ 0 \in doms_unmanaged
  /\ trail = { << 0, "Pending", "Unmanaged" >> }
  /\ since_pending > 0

RECURSIVE SumHardTrim(_, _)
SumHardTrim(md, ids) ==
  IF ids = {} THEN 0
  ELSE LET id == lowest(ids)
       IN  md[id].memsize0 - md[id].memsize_hard
           + SumHardTrim(md, ids \ {id})

\* host_free when stage 2 is over: what the tick found free, plus what
\* stage 2 planned to take from the domains
FreeAfterHard(free0, lien0, md) ==
  free0 - get_xen_free_slack - lien0 + SumHardTrim(md, DOMAIN md)

\* C26: when stage 2 of a tick leaves host_free below host_reserved_hard,
\* it leaves no runnable Managed domain above its dmem_min; the tick then
\* goes on to its end.
C26_ShortfallOnlyAtMinimum ==
  [][ ( /\ TickStep
        /\ memsched_pause_level = 0
        /\ FreeAfterHard(xen_free0', host_lien0', doms_managed')
             < config.host_reserved_hard
      ) =>
        /\ \A id \in DOMAIN doms_managed' :
             doms_managed'[id].runnable =>
               doms_managed'[id].memsize_hard <= doms_managed'[id].dmem_min
        /\ since_sched' = 0
    ]_vars

\* a finished tick whose stage 2 took a domain down to its dmem_min and
\* still left host_free below the hard reserve
C26_Witness ==
  /\ AfterTick
  /\ memsched_pause_level = 0
  /\ FreeAfterHard(xen_free0, host_lien0, doms_managed)
       < config.host_reserved_hard
  /\ \E id \in DOMAIN doms_managed :
       /\ doms_managed[id].runnable
       /\ doms_managed[id].memsize0 > doms_managed[id].dmem_min
       /\ doms_managed[id].memsize_hard = doms_managed[id].dmem_min
  /\ \E k \in DOMAIN orders : orders[k].kind = "-"

\* the domain took part in the rebalancing of the tick that is over, and
\* the tick planned to shrink it by its full dmem_decr step or more
FullyShrunk(dom) ==
  /\ dom.valid_data /\ dom.runnable /\ ~dom.trimming_to_quota
  /\ dom.memsize < dom.memsize0
  /\ dom.memsize <= dom.memsize_decr

IsForce(f, n) == ~less(f, whole(n)) /\ ~less(whole(n), f)

C29_TransferOnlyWhenOutbid ==
  [][ TickStep =>
        \A id \in DOMAIN doms_managed' :
          doms_managed'[id].bid # << >> =>
            less(doms_managed'[id].bid[2], doms_managed'[id].bid[1])
    ]_vars

\* a tick in which a domain whose guest pages at a mid rate has given
\* memory to a domain whose guest pages more heavily
C29_Witness ==
  /\ AfterTick
  /\ \E id \in DOMAIN doms_managed :
       /\ doms_managed[id].bid # << >>
       /\ doms_managed[id].memsize < doms_managed[id].memsize_hard
       /\ doms_managed[id].slow_rate > 0
       /\ \E id2 \in DOMAIN doms_managed :
            /\ doms_managed[id2].memsize > doms_managed[id2].memsize0
            /\ doms_managed[id2].fast_rate > doms_managed[id].slow_rate

\* C30: a grant that stage 4 makes to a domain out of free memory leaves
\* host_free at or above host_reserved_hard when the expand force of the
\* domain is above 45, and at or above host_reserved_soft when it is 45 or
\* less.
C30_GrantKeepsReserve ==
  [][ TickStep =>
        \A id \in DOMAIN doms_managed' :
          doms_managed'[id].grant # << >> =>
            IF less(whole(resist_force_free_soft), doms_managed'[id].grant[1])
            THEN doms_managed'[id].grant[2] >= config.host_reserved_hard
            ELSE doms_managed'[id].grant[2] >= config.host_reserved_soft
    ]_vars

\* a tick that has granted free memory to a domain whose expand force is
\* above 45, taking host_free below the soft reserve
C30_Witness ==
  /\ AfterTick
  /\ \E id \in DOMAIN doms_managed :
       /\ doms_managed[id].grant # << >>
       /\ less(whole(resist_force_free_soft), doms_managed[id].grant[1])
       /\ doms_managed[id].grant[2] < config.host_reserved_soft
       /\ doms_managed[id].memsize > doms_managed[id].memsize0

\* C31: the three rounds of stage 3 together leave every domain at or
\* above its memsize_decr of the tick, or as large as stage 2 left it.
C31_SoftReclaimAboveDecr ==
  [][ ( TickStep /\ memsched_pause_level = 0 ) =>
        \A id \in DOMAIN doms_managed' :
          /\ doms_managed'[id].memsize_soft <= doms_managed'[id].memsize_hard
          /\ doms_managed'[id].memsize_soft
               >= min(doms_managed'[id].memsize_hard,
                      doms_managed'[id].memsize_decr)
    ]_vars

\* a tick whose stage 3 has shrunk a domain down to its memsize_decr,
\* which is above its dmem_min
C31_Witness ==
  /\ AfterTick
  /\ memsched_pause_level = 0
  /\ \E id \in DOMAIN doms_managed :
       /\ doms_managed[id].memsize_soft < doms_managed[id].memsize_hard
       /\ doms_managed[id].memsize_soft = doms_managed[id].memsize_decr
       /\ doms_managed[id].memsize_decr > doms_managed[id].dmem_min

\* the floor of a tick before any previous trim is charged
BaseDecr(dom) ==
  min(dom.dmem_max,
      max(dom.dmem_min,
          roundup(scale(dom.memsize0, FracDenom - dom.dmem_decr),
                  memquant_kbs)))

\* the free-memory command has issued the k-th order of the step, a
\* shrink order, to the domain
FreememShrunk(id, k) ==
  /\ FreememStep
  /\ id \in DOMAIN doms_managed
  /\ id \in DOMAIN doms_managed'
  /\ k \in DOMAIN orders'
  /\ orders'[k].id = id

\* what the command has recorded for the domain before, in the same tick
PreshrinkBase(dom) ==
  IF dom.preshrink_tick = sched_tick THEN dom.preshrink ELSE 0

\* a tick that follows, by one, the tick of a recorded trim of the domain
ChargedTickStep(id) ==
  /\ TickStep
  /\ sched_tick' = sched_tick + 1
  /\ id \in DOMAIN doms_managed
  /\ doms_managed[id].preshrink > 0
  /\ doms_managed[id].preshrink_tick = sched_tick
  /\ id \in DOMAIN doms_managed'
  /\ doms_managed'[id].valid_memory_data

\* the free-memory command records what it shrinks a domain by, with the
\* current tick number
PreshrinkRecorded(id) ==
  \A k \in 1 .. 2 :
    FreememShrunk(id, k) =>
      /\ orders'[k].kind = "-"
      /\ doms_managed'[id].preshrink_tick = sched_tick
      /\ doms_managed'[id].preshrink
           = PreshrinkBase(doms_managed[id])
             + max(0, orders'[k].curr - orders'[k].size)

\* the usual allowance of the tick less the recorded amount, not below zero
ChargedAllowance(id) ==
  max(doms_managed'[id].memsize0 - BaseDecr(doms_managed'[id])
        - doms_managed[id].preshrink, 0)

LastSeen(dom, n) ==
  { dom.xds_seen[k] : k \in (Len(dom.xds_seen) - n + 1) .. Len(dom.xds_seen) }

\* the step has examined the pending domain and computed a size for it
ExaminedStep(id) ==
  /\ id \in DOMAIN doms_pending
  /\ id \in DOMAIN doms_pending'
  /\ Len(doms_pending'[id].xds_seen) = Len(doms_pending[id].xds_seen) + 1

\* C33: a pending domain becomes managed only when the last
\* xen_private_data_size_samples examinations of it have computed one and
\* the same size, the one accepted as its xen_data_size; an examination
\* that computes a size differing from the one before restarts the run at
\* phase 1.
C33_XenDataSizeSampled ==
  [][ \A id \in IDS :
        /\ ( id \in DOMAIN doms_pending /\ id \in DOMAIN doms_managed' ) =>
             /\ Len(doms_managed'[id].xds_seen)
                  >= config.xen_private_data_size_samples
             /\ LastSeen(doms_managed'[id],
                         config.xen_private_data_size_samples)
                  = { doms_managed'[id].xen_data_size }
        /\ ( /\ ExaminedStep(id)
             /\ doms_pending[id].xds_seen # << >>
             /\ LastSeen(doms_pending'[id], 1) # LastSeen(doms_pending[id], 1)
             /\ doms_pending'[id].xen_data_size >= 0
           ) => doms_pending'[id].xen_data_size_phase = 1
    ]_vars

\* a domain has become managed after a run of examinations that was
\* restarted by a differing size
C33_Witness ==
  \E id \in DOMAIN doms_managed :
    /\ Len(doms_managed[id].xds_seen)
         > config.xen_private_data_size_samples
    /\ doms_managed[id].xds_seen[1] # doms_managed[id].xen_data_size
    /\ doms_managed[id].xds_seen[1] >= 0

\* the cycle that a pass of the pending domains counts for the domain
CycleOf(id) == doms_pending[id].pending_cycle + 1

\* a pass of the pending domains that finds the domain pending, before
\* its cycles are counted no further
CountedPass(id) ==
  /\ started
  /\ pending_due
  /\ since_pending' = 0
  /\ id \in DOMAIN doms_pending
  /\ CycleOf(id) < PendingCycleCap

\* the pass has examined the domain: the examination is on record, or it
\* has ended the pending state of the domain
Examined(id) ==
  \/ id \notin DOMAIN doms_pending'
  \/ doms_pending'[id].exam_cycle = CycleOf(id)

\* the pass has left the domain aside: no examination is on record, and
\* the domain stays pending unless its time is out
Skipped(id) ==
  \/ /\ id \in DOMAIN doms_pending'
     /\ doms_pending'[id].exam_cycle = doms_pending[id].exam_cycle
     /\ doms_pending'[id].exam_cycle < CycleOf(id)
  \/ /\ id \in doms_unmanaged'
     /\ pending_timed_out(doms_pending[id], config)

\* every cycle for cycles 1 to 3, every other cycle for 4 to 6, every fifth
\* for 7 to 20, every tenth from 21 on
BackoffPeriod(c) ==
  IF c \in 1 .. 3 THEN 1 ELSE IF c \in 4 .. 6 THEN 2
  ELSE IF c \in 7 .. 20 THEN 5 ELSE 10

\* so many cycles have gone since the last examination
DueByPeriod(id) ==
  CycleOf(id) - doms_pending[id].exam_cycle >= BackoffPeriod(CycleOf(id))

\* the last examination has asked to be repeated in one second
RepeatAsked(id) == doms_pending[id].pending_skipped >= 100

\* C34 as stated: a pending domain is examined on every cycle of its first
\* 3, on every other cycle of the next 3, on every fifth of the next 14
\* and on every tenth after that, and on no other cycle.
C34_AsStated ==
  [][ \A id \in IDS :
        CountedPass(id) =>
          /\ DueByPeriod(id) => Examined(id)
          /\ ~DueByPeriod(id) => Skipped(id)
    ]_vars

\* C34: a pending domain is examined on every cycle of its first 3, on
\* every other cycle of the next 3, on every fifth of the next 14 and on
\* every tenth after that, and besides on the cycle that follows an
\* examination which asked to be repeated in one second; it is left aside
\* on every other cycle.
C34_PendingBackoff ==
  [][ \A id \in IDS :
        CountedPass(id) =>
          /\ ( DueByPeriod(id) \/ RepeatAsked(id) ) => Examined(id)
          /\ ~( DueByPeriod(id) \/ RepeatAsked(id) ) => Skipped(id)
    ]_vars

\* a domain pending for 30 cycles has been examined at its cycle 30, ten
\* cycles after its cycle 20
C34_Witness ==
  \E id \in DOMAIN doms_pending :
    /\ doms_pending[id].pending_cycle = 30
    /\ doms_pending[id].exam_cycle = 30
    /\ since_pending = 0

(***************************************************************************)
(* C35                                                                     *)
(***************************************************************************)
\* the loop has been left with an expansion still unsatisfied
LoopGaveUp == ~enact.on /\ enact.vec_up # << >>

AbortedOnRetries == enact.nomem_cycles >= domain_expansion_timeout_abort
BudgetUsedUp == enact.elapsed >= domain_expansion_timeout_ms(config)
NothingShrunk == enact.down = {}

\* C35: the expansion loop of a tick always ends, and when it ends with an
\* expansion still unsatisfied then domain_expansion_timeout_abort
\* consecutive retries have yielded no memory, or the time budget of
\* min(domain_expansion_timeout_max * 1000, domain_expansion_timeout_frac
\* * interval * 1000) ms is used up, or no domain was shrunk in the tick.
C35_ExpandLoopEnds ==
  /\ enact.on ~> ~enact.on
  /\ [](LoopGaveUp => AbortedOnRetries \/ BudgetUsedUp \/ NothingShrunk)

\* the loop has slept and retried four times with the shrinking guest
\* releasing nothing, and has been left with the expansion unsatisfied
C35_Witness ==
  /\ LoopGaveUp
  /\ AbortedOnRetries
  /\ ~BudgetUsedUp
  /\ ~NothingShrunk

(***************************************************************************)
(* C36                                                                     *)
(***************************************************************************)
RECURSIVE GivenSince(_, _, _)
GivenSince(md, ids, stage) ==
  IF ids = {} THEN 0
  ELSE LET id == lowest(ids)
           was == IF stage = 2 THEN md[id].memsize_hard
                  ELSE md[id].memsize_soft
       IN  md[id].memsize - was + GivenSince(md, ids \ {id}, stage)

\* host_free as stage 2 and as stage 3 left it, in the state that the tick
\* leaves
HostFreeAfterHard ==
  host_free + GivenSince(doms_managed, DOMAIN doms_managed, 2)
HostFreeAfterSoft ==
  host_free + GivenSince(doms_managed, DOMAIN doms_managed, 3)

\* the tick now made is at least two ticks after the domain's last
\* expansion
ProtectionOver(id) ==
  /\ id \in DOMAIN doms_managed
  /\ sched_tick' - doms_managed[id].last_expand_tick
       > shrink_protection_time

\* what the stages ask of a domain they shrink, its last expansion aside
Shrinkable(dom) ==
  dom.valid_data /\ dom.runnable /\ ~dom.trimming_to_quota

\* stage 3 had a round for the domain: the first round when the soft
\* reserve was unmet after stage 2, the second and the third round when
\* it was still unmet after stage 3
SoftRoundFor(dom) ==
  \/ /\ HostFreeAfterHard' < config.host_reserved_soft
     /\ dom.time_rate_below_low # 0
     /\ dom.memsize_hard > dom.dmem_quota
  \/ /\ HostFreeAfterSoft' < config.host_reserved_soft
     /\ \/ dom.time_rate_below_low # 0
        \/ dom.time_rate_below_high # 0 /\ dom.memsize_soft > dom.dmem_quota

\* C36: at a tick two or more ticks after its last expansion a domain is
\* again taken as a victim by stage 3 (in the rounds that run and whose
\* rate and size conditions it meets) and by stage 4 (when it is above
\* memsize_decr).
C36_EligibleFromSecondTick ==
  [][ (TickStep /\ memsched_pause_level = 0) =>
        \A id \in DOMAIN doms_managed' :
          (ProtectionOver(id) /\ Shrinkable(doms_managed'[id])) =>
            /\ SoftRoundFor(doms_managed'[id])
                 => 3 \in doms_managed'[id].listed
            /\ doms_managed'[id].memsize_soft
                 > doms_managed'[id].memsize_decr
                 => 4 \in doms_managed'[id].listed
    ]_vars

\* a domain expanded two ticks ago has been shrunk by stage 3
C36_Witness ==
  /\ AfterTick
  /\ memsched_pause_level = 0
  /\ \E id \in DOMAIN doms_managed :
       /\ doms_managed[id].last_expand_tick = sched_tick - 2
       /\ 3 \in doms_managed[id].listed
       /\ doms_managed[id].memsize_soft < doms_managed[id].memsize_hard

(***************************************************************************)
(* C37                                                                     *)
(***************************************************************************)
\* C37: a tick that runs while the pause level is not 0 issues no order
\* and leaves the memory target of every domain as it was.
C37_PausedTickIssuesNoTarget ==
  [][ (TickStep /\ memsched_pause_level # 0) =>
        /\ orders' = << >>
        /\ \A id \in IDS : xen'[id].target = xen[id].target
    ]_vars

(***************************************************************************)
(* C38                                                                     *)
(***************************************************************************)
OrdersFor(id) == { k \in DOMAIN orders : orders[k].id = id }

\* C38: a tick that has removed a domain from Managed does nothing more
\* with the record of the domain: the only order that the tick can issue
\* for the domain is the trim to quota that the removal itself makes.
C38_DeletedRecordLeftAlone ==
  [][ TickStep =>
        \A id \in IDS :
          << id, "Managed", "Unmanaged" >> \in trail' =>
            Cardinality(OrdersFor(id)') <= 1
    ]_vars

(***************************************************************************)
(* C39                                                                     *)
(***************************************************************************)
\* Stage 2 is also examined on a host where the first domain is so small
\* that one dmem_decr slice of it is less than a memory quantum.
cf_tiny == DomainConfig("auto", 48, 32, 40, 64)

TinyHosts ==
  { HostOf(NewDomain(cf_tiny, 64, TRUE, "idle"),
           NewDomain(cf_small, 768, TRUE, "busy")) }

TinyInit == SchedInitOn(TinyHosts)

\* Dom0 takes nearly all of the free memory of that host
TinySqueezeSizes == { HostPhysMem.dom0, 3072, 3200 }

Dom0TinySqueeze == Dom0BalloonTo(TinySqueezeSizes)

TinyNext ==
  \/ TimePasses
  \/ sched_memory
  \/ GuestBalloon
  \/ Dom0TinySqueeze

TinySpec == TinyInit /\ [][TinyNext]_vars

\* sched_memory while the adjustment is not paused, up to the end of
\* stage 2
sched_memory_hard_w(w0, reps, tick, cfg, addr, stale_trim) ==
  sched_reserved_hard(stage_collect_data(w0, reps, tick, cfg, 0, stale_trim), cfg, addr)

\* C39: stage 2 of every tick ends: whenever a tick is due and the
\* adjustment is not paused, no pass of the reclaim loop of rounds 4 and 5
\* leaves both the remaining goal and the candidate list as they were,
\* whatever the guests report.
C39_Stage2Ends ==
  (started /\ sched_due /\ memsched_pause_level = 0 /\ watchq = {}) =>
    \A reps \in ReportChoices(xen, DOMAIN doms_managed),
       addr \in TickAddrs(doms_managed) :
      \A stale_trim \in TickStale(reps) :
        ~sched_memory_hard_w(World, reps,
                             sched_tick + 1
                             + (IF resuming_memsched
                                THEN sched_slept(since_sched, config) ELSE 0),
                             config, addr, stale_trim).hang

(***************************************************************************)
(* C40                                                                     *)
(***************************************************************************)
\* sched_memory while the adjustment is not paused, up to the end of
\* stage 4
sched_memory_plan_w(w0, reps, tick, cfg, addr, stale_trim) ==
  sched_plan(stage_collect_data(w0, reps, tick, cfg, 0, stale_trim), cfg, tick, addr)

\* C40: stage 4 of every tick ends without the fatal checks "size
\* category did not change" and "need < 0": whenever a tick is due, the
\* adjustment is not paused and stage 2 ends, the expansion loop of
\* sched_rebalance comes to its end, whatever the guests report.
C40_Stage4Ends ==
  (started /\ sched_due /\ memsched_pause_level = 0 /\ watchq = {}) =>
    \A reps \in ReportChoices(xen, DOMAIN doms_managed),
       addr \in TickAddrs(doms_managed) :
      \A stale_trim \in TickStale(reps) :
        LET tick == sched_tick + 1
                    + (IF resuming_memsched
                       THEN sched_slept(since_sched, config) ELSE 0)
        IN  ~sched_memory_hard_w(World, reps, tick, config, addr,
                                 stale_trim).hang
            => ~sched_memory_plan_w(World, reps, tick, config, addr,
                                    stale_trim).hang

\* a tick has expanded a domain in stage 4 from below its dmem_quota to
\* above it, so the domain changed its size category on the way
C40_Witness ==
  /\ AfterTick
  /\ memsched_pause_level = 0
  /\ \E id \in DOMAIN doms_managed :
       /\ doms_managed[id].memsize_soft < doms_managed[id].dmem_quota
       /\ doms_managed[id].memsize_soft = doms_managed[id].memsize0
       /\ doms_managed[id].memsize > doms_managed[id].dmem_quota

====
